---------------------------- MODULE Spec2Model ----------------------------
(***************************************************************************)
(* Model of the grouping / renaming pipeline of bg3-sounds-converter        *)
(* (src/app.py, class Worker).                                              *)
(*                                                                          *)
(* Text is modelled as sequences of one-character strings, so that the      *)
(* Python string operations the code uses (splitlines, strip, isdigit,      *)
(* split, upper, "in", f-strings) are computed character by character.      *)
(***************************************************************************)
EXTENDS Naturals, Sequences, FiniteSets, TLC

VARIABLES
    content,    \* the "content" text of the knowledge-base page being parsed
    table,      \* the table the content was written from, NoTable for free text
    id_dict,    \* rename_files' id_dict for that content
    built       \* whether the ID-map construction has run

VARIABLES
    os_name,          \* os.name of the machine: "posix" or "nt"
    wiki_json,        \* the file at wiki_json_path: missing, invalid, or its pages
    banks_converted,  \* per partition: bank folder -> lines of its .bnk.xml
    audio_converted,  \* per partition: loose files and per-bank subdirectories
    is_running,       \* Worker._is_running
    start_enabled,    \* MainWindow.start_button.isEnabled()
    stop_enabled,     \* MainWindow.stop_button.isEnabled()
    runs,             \* number of Worker runs started so far
    pc,               \* where the worker thread is
    calls,            \* the stage calls Worker.run still has to make
    roots,            \* create_banks_folders: directories os.walk has yet to yield
    bank_name,        \* create_banks_folders: bank whose descriptor is open
    xml_lines,        \* create_banks_folders: lines of the open descriptor not yet read
    folders,          \* rename_files: folders not yet visited
    folder_counts,    \* rename_files: <<rename_folder_index, total>>
    folder_name,      \* rename_files: folder being renamed
    mapping_key,      \* rename_files: key of the page selected for it, None for none
    sounds,           \* rename_files: globbed files of the folder not yet visited
    log,              \* progress messages of the current run
    call,             \* record of the stage call in progress
    last,             \* record of the stage call that ended last in this run
    completed,        \* per stage and partition: the tree its last full pass left
    settings,         \* Worker.settings: the four should_* flags of the run
    unpacked,         \* folder_unpacked_data: the files of its sound directories
    vgmstream_dir,    \* whether folder_vgmstream is a directory
    banks,            \* decode_banks: banks not yet visited
    bank_counts,      \* decode_banks: <<bank_index, total>>
    wems,             \* convert_wem_folder: files not yet visited
    wem_counts,       \* convert_wem_folder: <<wem_index, total>>
    proc,             \* the external process subprocess.call is waiting for
    stop_mark         \* where the worker was when stop() was called in this run

VARIABLES
    bnk_task,         \* app2: the bank process_bnk_file is called for, with
                      \*       what the decoder does and what its XML holds
    bank_result,      \* app2: the (bank_name, bank_info) it returned, None before
    errors            \* app2: the messages given to logger.error

VARIABLES
    descriptor_line,  \* a line of a .bnk.xml descriptor as read from the file
    line_ids          \* create_banks_folders: its local ids for that line,
                      \*       None before the line is read

lineVars == <<descriptor_line, line_ids>>

VARIABLES
    data_tree,           \* app2: the directories and files below unpacked_data_folder
    shared_only_box,     \* app2 window: shared_only.isChecked()
    shareddev_only_box,  \* app2 window: shareddev_only.isChecked()
    start_btn,           \* app2 window: start_btn.isEnabled()
    cancel_btn,          \* app2 window: cancel_btn.isEnabled()
    save_btn,            \* app2 window: save_btn.isEnabled()
    progress_label,      \* app2 window: progress_label.text()
    all_banks,           \* app2 window: self.all_banks
    worker_opts,         \* BankProcessingWorker: shared_only and shareddev_only
    is_cancelled,        \* BankProcessingWorker.is_cancelled
    bank_pc,             \* where BankProcessingWorker.run is
    bnk_files,           \* run: what find_bnk_files returned
    bank_todo,           \* run: the files whose result has not been taken
    run_banks,           \* run: its local all_banks
    emitted,             \* the signals the worker emitted in this run
    queued               \* finished and error signals not yet delivered

dictVars == <<data_tree, shared_only_box, shareddev_only_box, start_btn,
              cancel_btn, save_btn, progress_label, all_banks, worker_opts,
              is_cancelled, bank_pc, bnk_files, bank_todo, run_banks, emitted,
              queued>>

mapVars == <<content, table, id_dict, built>>

fsVars == <<banks_converted, audio_converted>>

guiVars == <<start_enabled, stop_enabled, runs>>

groupVars == <<roots, bank_name, xml_lines>>

renameVars == <<folders, folder_counts, folder_name, mapping_key, sounds>>

app2Vars == <<bnk_task, bank_result, errors>>

extraVars == <<lineVars, dictVars>>

envVars == <<os_name, unpacked, vgmstream_dir, app2Vars, extraVars>>

unitVars == <<settings, banks, bank_counts, wems, wem_counts, proc, stop_mark>>

vars == <<content, table, id_dict, built, os_name, wiki_json, banks_converted,
          audio_converted, is_running, start_enabled, stop_enabled, runs, pc,
          calls, roots, bank_name, xml_lines, folders, folder_counts,
          folder_name, mapping_key, sounds, log, call, last, completed,
          settings, unpacked, vgmstream_dir, banks, bank_counts, wems,
          wem_counts, proc, stop_mark, bnk_task, bank_result, errors,
          extraVars>>

(***************************************************************************)
(* Bounds of the model.                                                     *)
(***************************************************************************)
\* longest free-text content enumerated character by character
MaxLen == 5
\* most index / name / id-list triples in a generated table
MaxTriples == 2
\* most ID tokens in a generated table, all its id-lists together
MaxIds == 3
\* most sourceID lines in a generated bank descriptor
MaxSourceLines == 2
\* most pages in a generated knowledge-base mapping
MaxPages == 2
\* most Worker runs started from the main window
MaxRuns == 2

\* characters tried before and after the marker of a descriptor line
MaxTail == 3

\* files in a directory of the unpacked data folder
MaxDirFiles == 1

(***************************************************************************)
(* Python string primitives.                                                *)
(***************************************************************************)
Digits == <<"0", "1", "2", "3", "4", "5", "6", "7", "8", "9">>

DigitSet == {Digits[i] : i \in 1..10}

\* characters str.strip() removes
IsSpace(c) == c \in {" ", "\n", "\t", "\r"}

\* s[a..b] (1-based, inclusive), empty when a > b
Slice(s, a, b) == [i \in 1..(IF b >= a THEN b - a + 1 ELSE 0) |-> s[a + i - 1]]

\* str.split(sep) for a one-character separator: always at least one piece,
\* empty pieces are kept
RECURSIVE split(_, _)
split(s, sep) ==
    IF \E i \in 1..Len(s) : s[i] = sep
    THEN LET i == CHOOSE k \in 1..Len(s) :
                      s[k] = sep /\ \A j \in 1..(k - 1) : s[j] # sep
         IN  <<Slice(s, 1, i - 1)>> \o split(Slice(s, i + 1, Len(s)), sep)
    ELSE <<s>>

\* str.splitlines(): like split on the line break, but an empty text has no
\* line and a final line break opens no further line
splitlines(s) ==
    IF s = <<>> THEN <<>>
    ELSE LET parts == split(s, "\n")
         IN  IF parts[Len(parts)] = <<>>
             THEN Slice(parts, 1, Len(parts) - 1)
             ELSE parts

\* str.strip()
strip(s) ==
    IF \A i \in 1..Len(s) : IsSpace(s[i]) THEN <<>>
    ELSE LET a == CHOOSE k \in 1..Len(s) :
                      ~IsSpace(s[k]) /\ \A j \in 1..(k - 1) : IsSpace(s[j])
             b == CHOOSE k \in 1..Len(s) :
                      ~IsSpace(s[k]) /\ \A j \in (k + 1)..Len(s) : IsSpace(s[j])
         IN  Slice(s, a, b)

\* str.isdigit(): non-empty and every character a digit
isdigit(s) == Len(s) > 0 /\ \A i \in 1..Len(s) : s[i] \in DigitSet

\* str(n) for n >= 0
RECURSIVE IntToStr(_)
IntToStr(n) ==
    IF n < 10 THEN <<Digits[n + 1]>>
    ELSE IntToStr(n \div 10) \o <<Digits[(n % 10) + 1]>>

\* [x for x in xs if x]: the empty strings are dropped
RECURSIVE DropEmpty(_)
DropEmpty(xs) ==
    IF xs = <<>> THEN <<>>
    ELSE (IF Head(xs) # <<>> THEN <<Head(xs)>> ELSE <<>>) \o DropEmpty(Tail(xs))

\* [x.strip() for x in xs]
StripAll(xs) == [i \in 1..Len(xs) |-> strip(xs[i])]

\* s.endswith(suffix)
EndsWith(s, suffix) ==
    /\ Len(s) >= Len(suffix)
    /\ Slice(s, Len(s) - Len(suffix) + 1, Len(s)) = suffix

\* sub in s
Contains(s, sub) ==
    /\ Len(s) >= Len(sub)
    /\ \E i \in 0..(Len(s) - Len(sub)) : Slice(s, i + 1, i + Len(sub)) = sub

LowerLetters ==
    <<"a", "b", "c", "d", "e", "f", "g", "h", "i", "j", "k", "l", "m",
      "n", "o", "p", "q", "r", "s", "t", "u", "v", "w", "x", "y", "z">>

UpperLetters ==
    <<"A", "B", "C", "D", "E", "F", "G", "H", "I", "J", "K", "L", "M",
      "N", "O", "P", "Q", "R", "S", "T", "U", "V", "W", "X", "Y", "Z">>

\* the upper-case letter of each lower-case one
UpperOf ==
    [c \in {LowerLetters[i] : i \in 1..Len(LowerLetters)} |->
        UpperLetters[CHOOSE i \in 1..Len(LowerLetters) : LowerLetters[i] = c]]

UpperChar(c) == IF c \in DOMAIN UpperOf THEN UpperOf[c] ELSE c

\* the lower-case letter of each upper-case one
LowerOf ==
    [c \in {UpperLetters[i] : i \in 1..Len(UpperLetters)} |->
        LowerLetters[CHOOSE i \in 1..Len(UpperLetters) : UpperLetters[i] = c]]

LowerChar(c) == IF c \in DOMAIN LowerOf THEN LowerOf[c] ELSE c

\* str.lower()
lower(s) == [i \in 1..Len(s) |-> LowerChar(s[i])]

\* str.upper()
upper(s) == [i \in 1..Len(s) |-> UpperChar(s[i])]

(***************************************************************************)
(* ID-map construction of rename_files (app.py 233-248).                    *)
(***************************************************************************)
\* lines = [line.strip() for line in content.splitlines() if line.strip()]
ContentLines(text) ==
    DropEmpty(StripAll(splitlines(text)))

\* a start index that is always 0
StartIndex_Zero(lines) == 0

\* start_index (0-based): the first digit-only line, 0 when there is none
StartIndex(lines) ==
    IF \E i \in 1..Len(lines) : isdigit(lines[i])
    THEN (CHOOSE k \in 1..Len(lines) :
              isdigit(lines[k]) /\ \A j \in 1..(k - 1) : ~isdigit(lines[j])) - 1
    ELSE 0

\* ids = [x.strip() for x in ids_line.split(",") if x.strip()]
IdTokens(ids_line) ==
    DropEmpty(StripAll(split(ids_line, ",")))

\* DisplayName numbering the tokens from 1
DisplayName_OneBased(base_name, idx) == base_name \o <<"_">> \o IntToStr(idx + 1)

\* f"{base_name}_{idx}"
DisplayName(base_name, idx) == base_name \o <<"_">> \o IntToStr(idx)

\* a dict assignment that keeps the value a key already has
DictSet_KeepFirst(d, k, v) ==
    [x \in DOMAIN d \cup {k} |-> IF x \in DOMAIN d THEN d[x] ELSE v]

\* id_dict[id_val] = value
DictSet(d, k, v) == [x \in DOMAIN d \cup {k} |-> IF x = k THEN v ELSE d[x]]

\* for idx, id_val in enumerate(ids): id_dict[id_val] = f"{base_name}_{idx}"
RECURSIVE AddIds(_, _, _, _)
AddIds(d, base_name, ids, idx) ==
    IF idx >= Len(ids) THEN d
    ELSE AddIds(DictSet(d, ids[idx + 1], DisplayName(base_name, idx)),
                base_name, ids, idx + 1)

\* AddGroups with the guard i + 3 < len(lines): the last group is dropped
RECURSIVE AddGroups_DropLast(_, _, _)
AddGroups_DropLast(d, lines, i) ==
    IF i >= Len(lines) THEN d
    ELSE AddGroups_DropLast(IF i + 3 < Len(lines)
                            THEN AddIds(d, lines[i + 2], IdTokens(lines[i + 3]), 0)
                            ELSE d,
                            lines, i + 3)

\* for i in range(start_index, len(lines), 3): if i + 2 < len(lines): ...
RECURSIVE AddGroups(_, _, _)
AddGroups(d, lines, i) ==
    IF i >= Len(lines) THEN d
    ELSE AddGroups(IF i + 2 < Len(lines)
                   THEN AddIds(d, lines[i + 2], IdTokens(lines[i + 3]), 0)
                   ELSE d,
                   lines, i + 3)

EmptyDict == [x \in {} |-> <<>>]

BuildIdDict(text) ==
    LET lines == ContentLines(text)
    IN  AddGroups(EmptyDict, lines, StartIndex(lines))

(***************************************************************************)
(* The two directory trees the stages work on.  A directory is a function   *)
(* from file names to file contents; the converted-audio tree of a          *)
(* partition is its loose files and its per-bank subdirectories.            *)
(***************************************************************************)
Partitions == {"Shared", "SharedDev"}

\* del d[k]
Without(d, k) == [x \in DOMAIN d \ {k} |-> d[x]]

\* os.listdir(sounds_dir)
ListDir(tree) == DOMAIN tree.files \cup DOMAIN tree.dirs

\* a makedirs that creates nothing
MakeDirs_Never(tree, d) == tree

\* a makedirs that leaves the folder empty when it is there already
MakeDirs_Fresh(tree, d) == [tree EXCEPT !.dirs = DictSet(@, d, EmptyDict)]

\* os.makedirs(target_folder, exist_ok=True)
MakeDirs(tree, d) ==
    IF d \in DOMAIN tree.dirs THEN tree
    ELSE [tree EXCEPT !.dirs = DictSet(@, d, EmptyDict)]

\* shutil.copy in the place of shutil.move: the loose file stays
MoveIntoFolder_Copy(tree, filename, d) ==
    [tree EXCEPT !.dirs[d] = DictSet(@, filename, tree.files[filename])]

\* shutil.move(sounds_dir/filename, sounds_dir/d/filename): os.rename, or on
\* its failure copy2 and unlink; a file already at the destination is replaced
MoveIntoFolder(tree, filename, d) ==
    [files |-> Without(tree.files, filename),
     dirs  |-> [tree.dirs EXCEPT ![d] = DictSet(@, filename, tree.files[filename])]]

\* a copy in the place of os.rename: the file called old stays
RenameInFolder_KeepOld(tree, d, old, new) ==
    [tree EXCEPT !.dirs[d] = DictSet(@, new, @[old])]

\* os.rename(folder/old, folder/new) where it succeeds: a file already
\* called new is replaced
RenameInFolder(tree, d, old, new) ==
    [tree EXCEPT !.dirs[d] = DictSet(Without(@, old), new, @[old])]

WemWav == <<".", "w", "e", "m", ".", "w", "a", "v">>

DotWav == <<".", "w", "a", "v">>

\* glob.glob over a directory with a pattern "*<suffix>": names matching
\* *<suffix>, a leading dot is not matched by *
GlobSuffix(dir, suffix) ==
    {n \in DOMAIN dir : EndsWith(n, suffix) /\ n[1] # "."}

\* glob.glob(os.path.join(folder_path, "*.wem.wav"))
GlobWemWav(dir) == GlobSuffix(dir, WemWav)

\* glob.glob(os.path.join(source, "*/")): the subdirectories
GlobFolders(tree) == {d \in DOMAIN tree.dirs : d[1] # "."}

\* os.path.basename(sound).split(".")[0]
SoundId(filename) == split(filename, ".")[1]

\* the literal 'name="sourceID"'
SourceIdMarker ==
    <<"n", "a", "m", "e", "=", "\"", "s", "o", "u", "r", "c", "e", "I", "D", "\"">>

\* line.split('"')[1]
LineSourceId_FirstQuoted(line) ==
    LET parts == split(line, "\"") IN parts[2]

\* line.split('"')[-1]
LineSourceId_Last(line) ==
    LET parts == split(line, "\"") IN parts[Len(parts)]

\* line.split('"')[-2]
LineSourceId(line) ==
    LET parts == split(line, "\"") IN parts[Len(parts) - 1]

\* the first key, whatever it contains
MappingIndex_AnyKey(name, pages) == IF pages = <<>> THEN 0 ELSE 1

\* the last key containing the folder name
MappingIndex_LastMatch(name, pages) ==
    IF \E i \in 1..Len(pages) : Contains(upper(pages[i].key), upper(name))
    THEN CHOOSE i \in 1..Len(pages) :
             /\ Contains(upper(pages[i].key), upper(name))
             /\ \A j \in (i + 1)..Len(pages) :
                    ~Contains(upper(pages[j].key), upper(name))
    ELSE 0

\* for key in wiki_data: if folder_name.upper() in key.upper(): mapping_key =
\* key; break.  The place of the selected page in wiki_data, 0 for None
MappingIndex(name, pages) ==
    IF \E i \in 1..Len(pages) : Contains(upper(pages[i].key), upper(name))
    THEN CHOOSE i \in 1..Len(pages) :
             /\ Contains(upper(pages[i].key), upper(name))
             /\ \A j \in 1..(i - 1) : ~Contains(upper(pages[j].key), upper(name))
    ELSE 0

(***************************************************************************)
(* Knowledge-base contents the ID-map construction is run on: tables        *)
(* written out as text (an optional heading line, then an index line, a     *)
(* name line and an id-list line per row), and every short free text.       *)
(***************************************************************************)
Footsteps == <<"F", "o", "o", "t", "s", "t", "e", "p", "s">>

Door == <<"D", "o", "o", "r">>

Id100 == <<"1", "0", "0">>

Id101 == <<"1", "0", "1">>

BaseNames == {Footsteps, Door}

IdStrings == {Id100, Id101}

\* the text between two IDs of an id-list; the last one leaves an empty token
Separators == {<<",">>, <<",", " ">>, <<" ", ",", " ", ",">>}

Headings == {<<>>, <<<<"I", "D", "s">>>>}

NoTable == [kind |-> "none"]

SeqUpTo(S, n) == UNION {[1..k -> S] : k \in 0..n}

NonEmptySeqUpTo(S, n) == UNION {[1..k -> S] : k \in 1..n}

Rows == [name : BaseNames, ids : NonEmptySeqUpTo(IdStrings, MaxIds)]

RECURSIVE SumIdLists(_, _)
SumIdLists(rows, k) ==
    IF k > Len(rows) THEN 0 ELSE Len(rows[k].ids) + SumIdLists(rows, k + 1)

\* the lines after the last full triple: none, an index line, or an index
\* line and a name line
Trailers == {<<>>, <<<<"9">>>>, <<<<"9">>, Door>>}

Tables == [kind : {"table"}, heading : Headings, sep : Separators,
           rest : Trailers,
           rows : {rs \in SeqUpTo(Rows, MaxTriples) : SumIdLists(rs, 1) <= MaxIds}]

RECURSIVE Join(_, _)
Join(xs, sep) ==
    IF xs = <<>> THEN <<>>
    ELSE IF Len(xs) = 1 THEN xs[1]
    ELSE xs[1] \o sep \o Join(Tail(xs), sep)

RECURSIVE RenderRows(_, _, _)
RenderRows(rows, sep, k) ==
    IF k > Len(rows) THEN <<>>
    ELSE IntToStr(k) \o <<"\n">> \o rows[k].name \o <<"\n">>
         \o Join(rows[k].ids, sep) \o <<"\n">> \o RenderRows(rows, sep, k + 1)

Render(t) ==
    (IF t.heading = <<>> THEN <<>> ELSE t.heading[1] \o <<"\n">>)
    \o RenderRows(t.rows, t.sep, 1)
    \o (IF t.rest = <<>> THEN <<>> ELSE Join(t.rest, <<"\n">>) \o <<"\n">>)

Alphabet == {"1", "a", ",", " ", "\n"}

FreeTexts == SeqUpTo(Alphabet, MaxLen)

\* the content "1\nFootsteps\n100, 101\n"
ScenarioTable ==
    [kind |-> "table", heading |-> <<>>, sep |-> <<",", " ">>, rest |-> <<>>,
     rows |-> <<[name |-> Footsteps, ids |-> <<Id100, Id101>>]>>]

(***************************************************************************)
(* Trees and knowledge-base mappings the pipeline is run on.                *)
(***************************************************************************)
Amb01 == <<"A", "M", "B", "_", "0", "1">>

Vo02 == <<"V", "o", "_", "0", "2">>

\* the descriptor line '<root>\n'
HeaderLine == <<"<", "r", "o", "o", "t", ">", "\n">>

\* the descriptor line '<f name="sourceID" value="{id}"/>\n'
SourceLine(id) ==
    <<"<", "f", " ">> \o SourceIdMarker
    \o <<" ", "v", "a", "l", "u", "e", "=", "\"">> \o id \o <<"\"", "/", ">", "\n">>

\* a bank folder holding a descriptor with these lines / holding none
Xml(lines) == [xml |-> TRUE, lines |-> lines, readable |-> TRUE]

NoXml == [xml |-> FALSE, lines |-> <<>>, readable |-> TRUE]

\* a bank folder whose descriptor cannot be read as text: reading it raises
\* (bytes that are no text in the encoding open() takes from the locale)
XmlUnreadable == [xml |-> TRUE, lines |-> <<>>, readable |-> FALSE]

Descriptors ==
    {Xml(<<HeaderLine>> \o [i \in 1..Len(ids) |-> SourceLine(ids[i])]) :
        ids \in SeqUpTo(IdStrings, MaxSourceLines)}

File100 == Id100 \o WemWav

File101 == Id101 \o WemWav

\* a file a former renaming left
FileFootsteps0 == Footsteps \o <<"_", "0">> \o DotWav

\* a file named after an ID without the .wem part
File100Wav == Id100 \o DotWav

\* content "1\nDoor\n100\n2\nDoor\n101\n": both IDs get the name Door_0
CollidingTable ==
    [kind |-> "table", heading |-> <<>>, sep |-> <<",">>, rest |-> <<>>,
     rows |-> <<[name |-> Door, ids |-> <<Id100>>],
                [name |-> Door, ids |-> <<Id101>>]>>]

PageAmb ==
    [key |-> <<"A", "m", "b", "_", "0", "1">>, content |-> Render(ScenarioTable)]

PageAmbAlt ==
    [key |-> <<"x", " ", "A", "M", "B", "_", "0", "1", "b">>,
     content |-> Render(CollidingTable)]

Pages == {PageAmb, PageAmbAlt}

\* json.load gives a dict: its keys are distinct, in the order of the file
WikiDicts ==
    {w \in SeqUpTo(Pages, MaxPages) :
        \A i, j \in 1..Len(w) : i # j => w[i].key # w[j].key}

WikiLoaded(pages) == [state |-> "ok", pages |-> pages]

WikiMissing == [state |-> "missing", pages |-> <<>>]

WikiInvalid == [state |-> "invalid", pages |-> <<>>]

WikiFiles == {WikiMissing, WikiInvalid} \cup {WikiLoaded(w) : w \in WikiDicts}

NoFiles == [files |-> {}, dirs |-> EmptyDict]

\* the loose pools for grouping, each with the other bank it is walked with:
\* a second bank that names 100 too, a pool without 100, and a subdirectory
\* of AMB_01 that is there already and holds an older 100.wem.wav
GroupingCases ==
    {[vo   |-> Xml(<<HeaderLine, SourceLine(Id100)>>),
      pool |-> [files |-> {File100, File101}, dirs |-> EmptyDict],
      wiki |-> WikiLoaded(<<PageAmb>>)],
     [vo   |-> NoXml,
      pool |-> [files |-> {File101}, dirs |-> EmptyDict],
      wiki |-> WikiMissing],
     [vo   |-> NoXml,
      pool |-> [files |-> {File100, File101}, dirs |-> (Amb01 :> {File100})],
      wiki |-> WikiMissing]}

\* trees for grouping: descriptors of every shape for bank AMB_01 in each
\* of the cases above
GroupingScenarios ==
    {[os    |-> "posix",
      wiki  |-> c.wiki,
      banks |-> [p \in Partitions |->
                    IF p = "Shared" THEN (Amb01 :> d) @@ (Vo02 :> c.vo)
                    ELSE (Vo02 :> Xml(<<HeaderLine, SourceLine(Id100)>>))],
      audio |-> [p \in Partitions |->
                    IF p = "Shared" THEN c.pool
                    ELSE [files |-> {File100}, dirs |-> EmptyDict]]] :
        d \in Descriptors, c \in GroupingCases}

\* trees for renaming: grouped subdirectories under every mapping file and
\* on both kinds of machine; the subdirectory of AMB_01 may hold a file a
\* former renaming left, or a file named after an ID without the .wem part
RenamingScenarios ==
    {[os    |-> o,
      wiki  |-> w,
      banks |-> [p \in Partitions |->
                    IF p = "Shared"
                    THEN (Amb01 :> Xml(<<HeaderLine, SourceLine(Id100),
                                         SourceLine(Id101)>>))
                    ELSE EmptyDict],
      audio |-> [p \in Partitions |->
                    IF p = "Shared"
                    THEN [files |-> {},
                          dirs |-> (Amb01 :> amb) @@ (Vo02 :> {File100})]
                    ELSE [files |-> {}, dirs |-> (Amb01 :> {File101})]]] :
        o \in {"posix", "nt"},
        w \in WikiFiles,
        amb \in {{File100, File101}, {File100, FileFootsteps0},
                 {File100Wav, File101}}}

Scenarios == GroupingScenarios \cup RenamingScenarios

\* every file of a starting tree has a content of its own
StartTree(p, t) ==
    [files |-> [n \in t.files |-> <<p, <<>>, n>>],
     dirs  |-> [d \in DOMAIN t.dirs |-> [n \in t.dirs[d] |-> <<p, d, n>>]]]

(***************************************************************************)
(* The ID-map construction as a state machine: a content is given, the      *)
(* construction runs on it once.                                            *)
(***************************************************************************)
\* Python's None, which is no text
None == <<"None">>

\* the directories of folder_unpacked_data that Worker.run names (app.py
\* 72-75): SharedSoundBanks/Public/{part}/Assets/Sound and
\* SharedSounds/Public/{part}/Assets/Sound
SourceDirs == {"SharedSoundBanks", "SharedSounds"} \X Partitions

src_banks(p) == <<"SharedSoundBanks", p>>

src_sound(p) == <<"SharedSounds", p>>

\* folder_unpacked_data with empty sound directories
NothingUnpacked == [d \in SourceDirs |-> {}]

DotBnk == <<".", "b", "n", "k">>

DotWem == <<".", "w", "e", "m">>

\* glob.glob(os.path.join(source_dir, "*<suffix>")), each match with its
\* directory; the pattern is matched case-insensitively on Windows
GlobSource(tree, d, suffix) ==
    {<<d, n>> : n \in {m \in tree[d] :
                          /\ m[1] # "."
                          /\ EndsWith(IF os_name = "nt" THEN lower(m) ELSE m,
                                      suffix)}}

\* the os.walk over folder_unpacked_data for files whose lower-cased name
\* ends with the suffix (app.py 97-100, 146-148), each with its directory
WalkSource(tree, suffix) ==
    UNION {{<<d, n>> : n \in {m \in tree[d] : EndsWith(lower(m), suffix)}} :
              d \in SourceDirs}

\* the banks decode_banks lists for a partition (app.py 91-102): those of
\* its own directory, or if there is none every bank of the unpacked data
BanksFound(tree, p) ==
    IF GlobSource(tree, src_banks(p), DotBnk) = {}
    THEN WalkSource(tree, DotBnk)
    ELSE GlobSource(tree, src_banks(p), DotBnk)

\* the category test of app.py 142-152 on a directory Worker.run names
\* (every such path holds "Shared"; it holds "SharedDev" for that partition)
InCategory(p, d) == d[2] = p

\* a search that takes the files of every category
WemsFound_AnyCategory(tree, p) ==
    IF GlobSource(tree, src_sound(p), DotWem) = {}
    THEN WalkSource(tree, DotWem)
    ELSE GlobSource(tree, src_sound(p), DotWem)

\* the files convert_wem_folder lists for a partition (app.py 135-155)
WemsFound(tree, p) ==
    IF GlobSource(tree, src_sound(p), DotWem) = {}
    THEN {f \in WalkSource(tree, DotWem) : InCategory(p, f[1])}
    ELSE GlobSource(tree, src_sound(p), DotWem)

\* os.path.basename(bank)[:-4]
BankName(path) == Slice(path[2], 1, Len(path[2]) - 4)

\* the descriptor the decoder writes for a bank: the sound IDs it holds
BankSources == (Amb01 :> <<Id100, Id101>>) @@ (Vo02 :> <<Id100>>)

DescriptorOf(b) ==
    Xml(<<HeaderLine>>
        \o [i \in 1..Len(BankSources[b]) |-> SourceLine(BankSources[b][i])])

\* os.makedirs(bank_folder, exist_ok=True) in the converted-banks tree
MakeBankFolder(tree, b) ==
    IF b \in DOMAIN tree THEN tree ELSE DictSet(tree, b, NoXml)

\* shutil.move of the decoder's XML into the bank folder; a descriptor
\* already there is replaced
MoveXml(tree, b) == DictSet(tree, b, DescriptorOf(b))

\* the file vgmstream-cli writes for a .wem file: dest_dir/{filename}.wav
ConvertedName(path) == path[2] \o DotWav

WriteWav(tree, path, p) ==
    [tree EXCEPT !.files = DictSet(@, ConvertedName(path),
                                   <<"vgmstream", p, path[2]>>)]

NoCall == [stage |-> "none"]

Stages == {"decode", "convert", "group", "rename"}

\* subprocess.call is waiting for no process
NoProc == [tool |-> "none"]

\* stop() has not been called in this run
NoStop == [at |-> "none"]

\* the four checkboxes unchecked
NoSettings ==
    [should_decode_banks |-> FALSE, should_convert |-> FALSE,
     should_group |-> FALSE, should_rename |-> FALSE]

\* no pass has run to its end yet / the tree the last such pass left
NoPass == [done |-> FALSE]

PassLeft(tree) == [done |-> TRUE, end |-> tree]

workerVars == <<is_running, pc, calls, roots, bank_name, xml_lines, folders,
                folder_counts, folder_name, mapping_key, sounds, log, call, last,
                completed>>

pipeVars == <<os_name, wiki_json, banks_converted, audio_converted,
              start_enabled, stop_enabled, runs, is_running, pc, calls, roots,
              bank_name, xml_lines, folders, folder_counts, folder_name,
              mapping_key,
              sounds, log, call, last, completed, settings, unpacked,
              vgmstream_dir, banks, bank_counts, wems, wem_counts, proc,
              stop_mark, bnk_task, bank_result, errors, extraVars>>

\* no worker, nothing in progress
WorkerIdle ==
    /\ is_running = FALSE
    /\ pc = "idle"
    /\ calls = <<>>
    /\ roots = [top |-> FALSE, banks |-> {}]
    /\ bank_name = <<>>
    /\ xml_lines = <<>>
    /\ folders = {}
    /\ folder_counts = <<0, 0>>
    /\ folder_name = <<>>
    /\ mapping_key = None
    /\ sounds = {}
    /\ log = <<>>
    /\ call = NoCall
    /\ last = NoCall
    /\ completed = [st \in Stages |-> [p \in Partitions |-> NoPass]]
    /\ settings = NoSettings
    /\ banks = {}
    /\ bank_counts = <<0, 0>>
    /\ wems = {}
    /\ wem_counts = <<0, 0>>
    /\ proc = NoProc
    /\ stop_mark = NoStop

\* no call of app2's process_bnk_file
NoTask == [bank_name |-> <<>>]

\* no descriptor line under the eyes of the parser
LineIdle ==
    /\ descriptor_line = <<>>
    /\ line_ids = None

\* the window of app2 as constructed (app2.py 373-379, 452-453, 501-507),
\* before any worker (self.worker = None)
DictIdle ==
    /\ shared_only_box = FALSE
    /\ shareddev_only_box = FALSE
    /\ start_btn = TRUE
    /\ cancel_btn = FALSE
    /\ save_btn = FALSE
    /\ progress_label = "Ready"
    /\ all_banks = [x \in {} |-> {}]
    /\ worker_opts = [shared_only |-> FALSE, shareddev_only |-> FALSE]
    /\ is_cancelled = FALSE
    /\ bank_pc = "none"
    /\ bnk_files = [x \in {} |-> {}]
    /\ bank_todo = {}
    /\ run_banks = [x \in {} |-> {}]
    /\ emitted = <<>>
    /\ queued = <<>>

ExtraIdle ==
    /\ LineIdle
    /\ DictIdle
    /\ data_tree = [d \in {} |-> {}]

App2Idle ==
    /\ bnk_task = NoTask
    /\ bank_result = None
    /\ errors = <<>>
    /\ ExtraIdle

\* the main window as constructed (app.py 378-387)
WindowInit ==
    /\ start_enabled = TRUE
    /\ stop_enabled = FALSE
    /\ runs = 0

MapInit ==
    /\ \/ \E t \in Tables : table = t /\ content = Render(t)
       \/ \E c \in FreeTexts : table = NoTable /\ content = c
    /\ id_dict = EmptyDict
    /\ built = FALSE
    /\ os_name = "posix"
    /\ unpacked = NothingUnpacked
    /\ vgmstream_dir = TRUE
    /\ wiki_json = WikiMissing
    /\ banks_converted = [p \in Partitions |-> EmptyDict]
    /\ audio_converted = [p \in Partitions |-> StartTree(p, NoFiles)]
    /\ WindowInit
    /\ WorkerIdle
    /\ App2Idle

BuildIdMap ==
    /\ ~built
    /\ id_dict' = BuildIdDict(content)
    /\ built' = TRUE
    /\ UNCHANGED <<content, table>>
    /\ UNCHANGED pipeVars

MapNext == BuildIdMap

SpecIdMap == MapInit /\ [][MapNext]_vars

(***************************************************************************)
(* The pipeline: MainWindow's Start and Stop buttons and Worker.run with    *)
(* its grouping and renaming stages (the decoding and conversion            *)
(* checkboxes are left unchecked).                                          *)
(***************************************************************************)
Init ==
    /\ \E sc \in Scenarios :
          /\ os_name = sc.os
          /\ wiki_json = sc.wiki
          /\ banks_converted = sc.banks
          /\ audio_converted = [p \in Partitions |-> StartTree(p, sc.audio[p])]
    /\ unpacked = NothingUnpacked
    /\ vgmstream_dir = TRUE
    /\ content = <<>>
    /\ table = NoTable
    /\ id_dict = EmptyDict
    /\ built = FALSE
    /\ WindowInit
    /\ WorkerIdle
    /\ App2Idle

\* every call of Worker.run, whatever the checked boxes
StageCalls_AllStages(should_decode_banks, should_convert, should_group, should_rename) ==
    [i \in 1..8 |->
        [stage |-> <<"decode", "convert", "group", "rename">>[(i + 1) \div 2],
         part  |-> IF i % 2 = 1 THEN "Shared" ELSE "SharedDev"]]

\* the calls of Worker.run (app.py 259-285) under the checked boxes
StageCalls(should_decode_banks, should_convert, should_group, should_rename) ==
    (IF should_decode_banks
     THEN <<[stage |-> "decode", part |-> "Shared"],
            [stage |-> "decode", part |-> "SharedDev"]>>
     ELSE <<>>)
    \o (IF should_convert
        THEN <<[stage |-> "convert", part |-> "Shared"],
               [stage |-> "convert", part |-> "SharedDev"]>>
        ELSE <<>>)
    \o
    (IF should_group
     THEN <<[stage |-> "group", part |-> "Shared"],
            [stage |-> "group", part |-> "SharedDev"]>>
     ELSE <<>>)
    \o (IF should_rename
        THEN <<[stage |-> "rename", part |-> "Shared"],
               [stage |-> "rename", part |-> "SharedDev"]>>
        ELSE <<>>)

\* self.progress.emit(m) for each m of msgs, inside a stage call
Emit(msgs) == log' = log \o msgs

\* the record of the stage call in progress, with more messages and
\* operations, and the banks or folders visited
Noted(msgs, ops, visited) ==
    [call EXCEPT !.msgs = @ \o msgs, !.ops = @ \o ops, !.order = @ \o visited]

\* a notice that the bank was skipped
GroupedNotice_Skipped(b) == <<"skipped", b>>

\* f"Grouped files for bank '{bank_name}'" (app.py 199)
GroupedNotice(b) == <<"Grouped files for bank", b>>

\* the local variables of a stage call are gone once the call has ended
LocalsGone ==
    /\ roots' = [top |-> FALSE, banks |-> {}]
    /\ bank_name' = <<>>
    /\ xml_lines' = <<>>
    /\ folders' = {}
    /\ folder_counts' = <<0, 0>>
    /\ folder_name' = <<>>
    /\ mapping_key' = None
    /\ sounds' = {}
    /\ id_dict' = EmptyDict

\* the record of a stage call that has ended
Ended(c, msgs, tree, outcome) ==
    [stage |-> c.stage, part |-> c.part, prev |-> c.prev, start |-> c.start,
     end |-> tree, order |-> c.order, ops |-> c.ops, msgs |-> c.msgs \o msgs,
     outcome |-> outcome]

\* the tree a stage call writes to: the converted banks for decode_banks,
\* the converted audio for the other stages
StageTree(c) ==
    IF c.stage = "decode" THEN banks_converted[c.part]
    ELSE audio_converted[c.part]

\* the stage call returns to Worker.run (the step that returns changes no file)
Return(msgs, outcome) ==
    /\ Emit(msgs)
    /\ last' = Ended(call, msgs, StageTree(call), outcome)
    /\ completed' = IF outcome = "returned"
                    THEN [completed EXCEPT ![call.stage][call.part] =
                                               PassLeft(StageTree(call))]
                    ELSE completed
    /\ call' = NoCall
    /\ calls' = Tail(calls)
    /\ pc' = "dispatch"
    /\ LocalsGone

\* an exception leaves the stage call and Worker.run, which catches none
Raise(error) ==
    /\ last' = Ended(call, <<>>, StageTree(call), error)
    /\ call' = NoCall
    /\ pc' = "raised"
    /\ LocalsGone
    /\ UNCHANGED <<calls, log, completed>>

\* MainWindow.start_processing (app.py 455-490)
StartProcessing(should_decode_banks, should_convert, should_group, should_rename) ==
    /\ start_enabled
    /\ runs < MaxRuns
    /\ start_enabled' = FALSE
    /\ stop_enabled' = TRUE
    /\ runs' = runs + 1
    /\ log' = <<>>
    /\ is_running' = TRUE
    /\ settings' = [should_decode_banks |-> should_decode_banks,
                    should_convert |-> should_convert,
                    should_group |-> should_group,
                    should_rename |-> should_rename]
    /\ calls' = StageCalls(should_decode_banks, should_convert, should_group,
                           should_rename)
    /\ pc' = "created"
    /\ last' = NoCall
    /\ stop_mark' = NoStop
    /\ UNCHANGED <<mapVars, envVars, fsVars, wiki_json, groupVars, renameVars,
                   call, completed, banks, bank_counts, wems, wem_counts, proc>>

\* MainWindow.stop_processing (app.py 492-496) with Worker.stop (40-41)
\* (log holds the messages the worker emits; the line the window writes to
\* its own log_text here is not one of them)
StopProcessing ==
    /\ stop_enabled
    /\ is_running' = FALSE
    /\ stop_enabled' = FALSE
    /\ stop_mark' = [at |-> pc, call |-> call, last |-> last, proc |-> proc]
    /\ UNCHANGED <<mapVars, envVars, fsVars, wiki_json, start_enabled, runs, pc,
                   calls, groupVars, renameVars, log, call, last, completed,
                   settings, banks, bank_counts, wems, wem_counts, proc>>

\* Worker.run up to its first stage (app.py 44-86)
RunBegin ==
    /\ pc = "created"
    /\ is_running' = TRUE
    /\ pc' = "dispatch"
    /\ UNCHANGED <<mapVars, envVars, unitVars, fsVars, wiki_json, guiVars, calls,
                   groupVars, renameVars, log, call, last, completed>>

\* the end of Worker.run (app.py 287-288)
RunEnd ==
    /\ pc = "dispatch"
    /\ calls = <<>>
    /\ log' = Append(log, <<"Done">>)
    /\ pc' = "finished"
    /\ UNCHANGED <<mapVars, envVars, unitVars, fsVars, wiki_json, guiVars, is_running,
                   calls, groupVars, renameVars, call, last, completed>>

\* MainWindow.processing_finished (app.py 527-532)
\* (its line in log_text is the window's, not a message of the worker)
ProcessingFinished ==
    /\ pc = "finished"
    /\ start_enabled' = TRUE
    /\ stop_enabled' = FALSE
    /\ pc' = "idle"
    /\ UNCHANGED <<mapVars, envVars, unitVars, fsVars, wiki_json, runs, is_running, calls,
                   groupVars, renameVars, log, call, last, completed>>

\* the converted-audio tree of the partition of the call in progress
Tree == audio_converted[call.part]

\* the tree written under every partition
SetTree_Everywhere(t) == audio_converted' = [p \in Partitions |-> t]

SetTree(t) == audio_converted' = [audio_converted EXCEPT ![call.part] = t]

\* a test of the flag that never sees it cleared
NotRunning_Ignored == FALSE

\* "if not self._is_running" at the top of a turn of a stage's loop (app.py
\* 113, 167, 180, 219)
NotRunning == ~is_running

\* Worker.run's announcement and the entry of create_banks_folders, up to
\* the os.walk loop (app.py 273-279)
GroupEnter ==
    /\ pc = "dispatch"
    /\ calls # <<>>
    /\ Head(calls).stage = "group"
    /\ LET p == Head(calls).part
           msgs == (IF p = "Shared" THEN <<<<"Grouping files by bank">>>> ELSE <<>>)
                   \o <<<<"  Grouping audio", p>>>>
       IN  /\ Emit(msgs)
           /\ call' = [stage |-> "group", part |-> p, prev |-> completed["group"][p],
                       start |-> audio_converted[p], order |-> <<>>,
                       ops |-> <<>>, msgs |-> msgs]
           /\ roots' = [top |-> TRUE, banks |-> DOMAIN banks_converted[p]]
    /\ pc' = "walk"
    /\ UNCHANGED <<mapVars, envVars, unitVars, fsVars, wiki_json, guiVars, is_running,
                   calls, bank_name, xml_lines, renameVars, last, completed>>

\* one turn of "for root, dirs, files in os.walk(banks_dir)" up to the
\* opening of the descriptor (app.py 179-189): banks_dir itself comes first
\* and holds no file, the bank folders follow in the order of the file system
GroupWalk ==
    /\ pc = "walk"
    /\ IF ~roots.top /\ roots.banks = {}
       THEN /\ Return(<<>>, "returned")
            /\ UNCHANGED fsVars
       ELSE IF NotRunning
       THEN /\ Return(<<<<"Grouping cancelled.">>>>, "cancelled")
            /\ UNCHANGED fsVars
       ELSE IF roots.top
       THEN /\ roots' = [roots EXCEPT !.top = FALSE]
            /\ UNCHANGED <<fsVars, bank_name, xml_lines, pc, calls, log, call,
                           last, completed, id_dict, renameVars>>
       ELSE \E b \in roots.banks :
            /\ roots' = [roots EXCEPT !.banks = @ \ {b}]
            /\ UNCHANGED <<id_dict, renameVars>>
            /\ IF banks_converted[call.part][b].xml
               THEN /\ SetTree(MakeDirs(Tree, b))
                    /\ bank_name' = b
                    /\ xml_lines' = banks_converted[call.part][b].lines
                    /\ call' = Noted(<<>>, <<>>, <<b>>)
                    /\ pc' = "lines"
                    /\ UNCHANGED <<banks_converted, calls, log, last, completed>>
               ELSE UNCHANGED <<fsVars, bank_name, xml_lines, pc, calls, log,
                                call, last, completed>>
    /\ UNCHANGED <<content, table, built, envVars, unitVars, wiki_json, guiVars, is_running>>

\* one turn of "for line in bank_file_content" (app.py 189-198), and after
\* the last line the message of line 199; reading a descriptor that is no
\* text raises, and nothing catches it
GroupLine ==
    /\ pc = "lines"
    /\ IF ~banks_converted[call.part][bank_name].readable
       THEN /\ Raise("UnicodeDecodeError")
            /\ UNCHANGED fsVars
       ELSE /\ IF xml_lines = <<>>
               THEN /\ Emit(<<GroupedNotice(bank_name)>>)
                    /\ call' = Noted(<<GroupedNotice(bank_name)>>, <<>>, <<>>)
                    /\ pc' = "walk"
                    /\ UNCHANGED <<fsVars, xml_lines>>
               ELSE LET line == Head(xml_lines)
                        filename == LineSourceId(line) \o WemWav
                    IN  /\ xml_lines' = Tail(xml_lines)
                        /\ IF /\ Contains(line, SourceIdMarker)
                              /\ filename \in ListDir(Tree)
                           THEN /\ SetTree(MoveIntoFolder(Tree, filename, bank_name))
                                /\ call' = Noted(<<>>,
                                                 <<[op |-> "move", file |-> filename,
                                                    to |-> bank_name]>>, <<>>)
                           ELSE UNCHANGED <<audio_converted, call>>
                        /\ UNCHANGED <<banks_converted, pc, log>>
            /\ UNCHANGED <<id_dict, calls, roots, bank_name, renameVars, last,
                           completed>>
    /\ UNCHANGED <<content, table, built, envVars, unitVars, wiki_json, guiVars,
                   is_running>>

\* a rename_files that says nothing of a mapping file it cannot load
AbortNotice_Silent(state) == <<"Renaming files">>

\* the message rename_files emits before it returns for want of the mapping
\* file: it is missing (app.py 203-205), or open or json.load raised (214-216)
AbortNotice(state) ==
    IF state = "missing"
    THEN <<"wiki_data.json is missing. Skipping renaming.">>
    ELSE <<"Error loading JSON mapping">>

\* Worker.run's announcement and rename_files up to its loop over the
\* folders (app.py 280-285, 202-216)
RenameEnter ==
    /\ pc = "dispatch"
    /\ calls # <<>>
    /\ Head(calls).stage = "rename"
    /\ LET p == Head(calls).part
           found == GlobFolders(audio_converted[p])
           head == (IF p = "Shared" THEN <<<<"Renaming files">>>> ELSE <<>>)
                   \o <<<<"  Renaming audio", p>>>>
           count == <<<<"Renaming files in folders", Cardinality(found), p>>>>
           begun == [stage |-> "rename", part |-> p, prev |-> completed["rename"][p],
                     start |-> audio_converted[p], order |-> <<>>,
                     ops |-> <<>>, msgs |-> <<>>]
       IN  IF wiki_json.state = "missing"
           THEN /\ call' = NoCall
                /\ last' = Ended(begun,
                                  head \o <<AbortNotice("missing")>>,
                                  audio_converted[p], "aborted")
                /\ Emit(head \o <<AbortNotice("missing")>>)
                /\ calls' = Tail(calls)
                /\ UNCHANGED <<pc, folders, folder_counts, completed>>
           ELSE IF wiki_json.state = "invalid"
           THEN /\ call' = NoCall
                /\ last' = Ended(begun,
                                  head \o count \o <<AbortNotice("invalid")>>,
                                  audio_converted[p], "aborted")
                /\ Emit(head \o count \o <<AbortNotice("invalid")>>)
                /\ calls' = Tail(calls)
                /\ UNCHANGED <<pc, folders, folder_counts, completed>>
           ELSE /\ call' = [begun EXCEPT !.msgs = head \o count]
                /\ Emit(head \o count)
                /\ folders' = found
                /\ folder_counts' = <<0, Cardinality(found)>>
                /\ pc' = "folders"
                /\ UNCHANGED <<calls, last, completed>>
    /\ UNCHANGED <<mapVars, envVars, unitVars, fsVars, wiki_json, guiVars, is_running,
                   groupVars, folder_name, mapping_key, sounds>>

\* one turn of "for folder_path in folders" up to the glob of its sounds
\* (app.py 218-249); glob.glob returns the folders in the order of the file
\* system
RenameFolder ==
    /\ pc = "folders"
    /\ IF folders = {}
       THEN Return(<<>>, "returned")
       ELSE IF NotRunning
       THEN Return(<<<<"Renaming cancelled.">>>>, "cancelled")
       ELSE \E f \in folders :
            LET k == MappingIndex(f, wiki_json.pages)
            IN  /\ folders' = folders \ {f}
                /\ folder_name' = f
                /\ UNCHANGED groupVars
                /\ IF k = 0
                   THEN /\ mapping_key' = None
                        /\ Emit(<<<<"No mappings found for", f>>>>)
                        /\ call' = Noted(<<<<"No mappings found for", f>>>>, <<>>, <<f>>)
                        /\ UNCHANGED <<id_dict, sounds, pc>>
                   ELSE /\ mapping_key' = wiki_json.pages[k].key
                        /\ id_dict' = BuildIdDict(wiki_json.pages[k].content)
                        /\ sounds' = GlobWemWav(Tree.dirs[f])
                        /\ call' = Noted(<<>>, <<>>, <<f>>)
                        /\ pc' = "sounds"
                        /\ UNCHANGED log
                /\ UNCHANGED <<folder_counts, calls, last, completed>>
    /\ UNCHANGED <<content, table, built, envVars, unitVars, fsVars, wiki_json, guiVars,
                   is_running>>

\* one turn of "for sound in sounds" (app.py 250-254), and after the last
\* sound lines 255-256.  os.rename raises FileNotFoundError when the source is
\* gone and, on Windows, FileExistsError when the destination exists
RenameSound ==
    /\ pc = "sounds"
    /\ IF sounds = {}
       THEN /\ folder_counts' = <<folder_counts[1] + 1, folder_counts[2]>>
            /\ Emit(<<<<"folders processed for renaming", folder_counts[1] + 1,
                        folder_counts[2]>>>>)
            /\ call' = Noted(<<<<"folders processed for renaming",
                                 folder_counts[1] + 1, folder_counts[2]>>>>,
                             <<>>, <<>>)
            /\ pc' = "folders"
            /\ UNCHANGED <<audio_converted, sounds, calls, last, completed, id_dict,
                           groupVars, folders, folder_name, mapping_key>>
       ELSE \E sound \in sounds :
            LET sound_id == SoundId(sound)
                new_name == id_dict[sound_id] \o DotWav
                here == Tree.dirs[folder_name]
            IN  IF sound_id \notin DOMAIN id_dict
                THEN /\ sounds' = sounds \ {sound}
                     /\ UNCHANGED <<audio_converted, pc, calls, log, call, last,
                                    completed, id_dict, groupVars, folders,
                                    folder_counts, folder_name, mapping_key>>
                ELSE IF sound \notin DOMAIN here
                THEN /\ Raise("FileNotFoundError")
                     /\ UNCHANGED audio_converted
                ELSE IF os_name = "nt" /\ new_name \in DOMAIN here /\ new_name # sound
                THEN /\ Raise("FileExistsError")
                     /\ UNCHANGED audio_converted
                ELSE /\ sounds' = sounds \ {sound}
                     /\ SetTree(RenameInFolder(Tree, folder_name, sound, new_name))
                     /\ call' = Noted(<<>>,
                                      <<[op |-> "rename", folder |-> folder_name,
                                         file |-> sound, to |-> new_name]>>, <<>>)
                     /\ UNCHANGED <<pc, calls, log, last, completed, id_dict,
                                    groupVars, folders, folder_counts, folder_name,
                                    mapping_key>>
    /\ UNCHANGED <<content, table, built, envVars, unitVars, banks_converted, wiki_json,
                   guiVars, is_running>>

\* the record of a stage call that begins
Begun(stage, p, tree) ==
    [stage |-> stage, part |-> p, prev |-> completed[stage][p], start |-> tree,
     order |-> <<>>, ops |-> <<>>, msgs |-> <<>>]

\* Worker.run's announcement and decode_banks up to its loop over the banks
\* (app.py 259-264, 89-111)
DecodeEnter ==
    /\ pc = "dispatch"
    /\ calls # <<>>
    /\ Head(calls).stage = "decode"
    /\ LET p == Head(calls).part
           found == BanksFound(unpacked, p)
           head == (IF p = "Shared" THEN <<<<"Decoding sound banks">>>> ELSE <<>>)
                   \o <<<<"  Processing banks", p>>>>
           search == IF GlobSource(unpacked, src_banks(p), DotBnk) = {}
                     THEN <<<<"No BNK files found. Searching recursively...", p>>,
                            <<"BNK files found in recursive search",
                              Cardinality(found)>>>>
                     ELSE <<>>
           none == <<<<"No BNK files found or recursive search", p>>>>
           count == <<<<"Decoding banks", Cardinality(found)>>>>
           begun == Begun("decode", p, banks_converted[p])
       IN  IF found = {}
           THEN /\ call' = NoCall
                /\ last' = Ended(begun, head \o search \o none, banks_converted[p],
                                  "returned")
                /\ Emit(head \o search \o none)
                /\ calls' = Tail(calls)
                /\ completed' = [completed EXCEPT !["decode"][p] =
                                                      PassLeft(banks_converted[p])]
                /\ UNCHANGED <<pc, banks, bank_counts>>
           ELSE /\ call' = [begun EXCEPT !.msgs = head \o search \o count]
                /\ Emit(head \o search \o count)
                /\ banks' = found
                /\ bank_counts' = <<0, Cardinality(found)>>
                /\ pc' = "banks"
                /\ UNCHANGED <<calls, last, completed>>
    /\ UNCHANGED <<mapVars, envVars, fsVars, wiki_json, guiVars, is_running,
                   groupVars, renameVars, settings, wems, wem_counts, proc,
                   stop_mark>>

\* one turn of "for bank in banks" up to the call of the decoder (app.py
\* 112-120); glob.glob and os.walk give the banks in the order of the file
\* system
DecodeBank ==
    /\ pc = "banks"
    /\ IF banks = {}
       THEN /\ Return(<<>>, "returned")
            /\ bank_counts' = <<0, 0>>
            /\ UNCHANGED <<fsVars, banks, proc>>
       ELSE IF NotRunning
       THEN /\ Return(<<<<"Decoding cancelled.">>>>, "cancelled")
            /\ banks' = {}
            /\ bank_counts' = <<0, 0>>
            /\ UNCHANGED <<fsVars, proc>>
       ELSE \E bank \in banks :
            /\ banks' = banks \ {bank}
            /\ banks_converted' =
                   [banks_converted EXCEPT ![call.part] =
                                               MakeBankFolder(@, BankName(bank))]
            /\ proc' = [tool |-> "wwiser", item |-> bank]
            /\ call' = Noted(<<>>, <<>>, <<BankName(bank)>>)
            /\ pc' = "decoding"
            /\ UNCHANGED <<audio_converted, bank_counts, calls, log, last,
                           completed, id_dict, groupVars, renameVars>>
    /\ UNCHANGED <<content, table, built, envVars, wiki_json, guiVars, is_running,
                   settings, wems, wem_counts, stop_mark>>

\* the decoder has ended, whatever its exit status, and has or has not
\* written the XML next to the bank (app.py 120-127)
DecodeDone ==
    /\ pc = "decoding"
    /\ \E xml_written \in BOOLEAN :
           LET b == BankName(proc.item)
               k == bank_counts[1] + 1
               msgs == (IF xml_written
                        THEN <<<<"Added XML for bank", b>>>> ELSE <<>>)
                       \o <<<<"banks decoded", k, bank_counts[2], call.part>>>>
           IN  /\ banks_converted' =
                      IF xml_written
                      THEN [banks_converted EXCEPT ![call.part] = MoveXml(@, b)]
                      ELSE banks_converted
               /\ Emit(msgs)
               /\ call' = Noted(msgs, <<[op |-> "decode", item |-> proc.item,
                                         done |-> xml_written]>>, <<>>)
               /\ bank_counts' = <<k, bank_counts[2]>>
    /\ proc' = NoProc
    /\ pc' = "banks"
    /\ UNCHANGED <<mapVars, envVars, audio_converted, wiki_json, guiVars,
                   is_running, calls, groupVars, renameVars, last, completed,
                   settings, banks, wems, wem_counts, stop_mark>>

\* Worker.run's announcement and convert_wem_folder up to its loop over the
\* files (app.py 266-271, 130-165); os.chdir raises when folder_vgmstream is
\* no directory, and nothing catches it
ConvertEnter ==
    /\ pc = "dispatch"
    /\ calls # <<>>
    /\ Head(calls).stage = "convert"
    /\ LET p == Head(calls).part
           found == WemsFound(unpacked, p)
           head == (IF p = "Shared" THEN <<<<"Converting sound files">>>> ELSE <<>>)
                   \o <<<<"  Processing audio", p>>>>
           search == IF GlobSource(unpacked, src_sound(p), DotWem) = {}
                     THEN <<<<"No WEM files found. Searching recursively...", p>>,
                            <<"WEM files found in recursive search",
                              Cardinality(found)>>>>
                     ELSE <<>>
           none == <<<<"No WEM files found or recursive search", p>>>>
           count == <<<<"Converting files", Cardinality(found)>>>>
           begun == Begun("convert", p, audio_converted[p])
       IN  IF ~vgmstream_dir
           THEN /\ call' = NoCall
                /\ last' = Ended(begun, head, audio_converted[p],
                                  "FileNotFoundError")
                /\ Emit(head)
                /\ pc' = "raised"
                /\ UNCHANGED <<calls, completed, wems, wem_counts>>
           ELSE IF found = {}
           THEN /\ call' = NoCall
                /\ last' = Ended(begun, head \o search \o none, audio_converted[p],
                                  "returned")
                /\ Emit(head \o search \o none)
                /\ calls' = Tail(calls)
                /\ completed' = [completed EXCEPT !["convert"][p] =
                                                      PassLeft(audio_converted[p])]
                /\ UNCHANGED <<pc, wems, wem_counts>>
           ELSE /\ call' = [begun EXCEPT !.msgs = head \o search \o count]
                /\ Emit(head \o search \o count)
                /\ wems' = found
                /\ wem_counts' = <<0, Cardinality(found)>>
                /\ pc' = "wems"
                /\ UNCHANGED <<calls, last, completed>>
    /\ UNCHANGED <<mapVars, envVars, fsVars, wiki_json, guiVars, is_running,
                   groupVars, renameVars, settings, banks, bank_counts, proc,
                   stop_mark>>

\* one turn of "for wem in wems" up to the call of vgmstream-cli (app.py
\* 166-172), and after the loop or its break line 175
ConvertWem ==
    /\ pc = "wems"
    /\ IF wems = {}
       THEN /\ Return(<<>>, "returned")
            /\ wem_counts' = <<0, 0>>
            /\ UNCHANGED <<fsVars, wems, proc>>
       ELSE IF NotRunning
       THEN /\ Return(<<<<"Conversion cancelled.">>>>, "cancelled")
            /\ wems' = {}
            /\ wem_counts' = <<0, 0>>
            /\ UNCHANGED <<fsVars, proc>>
       ELSE \E wem \in wems :
            /\ wems' = wems \ {wem}
            /\ proc' = [tool |-> "vgmstream-cli", item |-> wem]
            /\ call' = Noted(<<>>, <<>>, <<wem[2]>>)
            /\ pc' = "converting"
            /\ UNCHANGED <<fsVars, wem_counts, calls, log, last, completed,
                           id_dict, groupVars, renameVars>>
    /\ UNCHANGED <<content, table, built, envVars, wiki_json, guiVars, is_running,
                   settings, banks, bank_counts, stop_mark>>

\* vgmstream-cli has ended, whatever its exit status, and has or has not
\* written the .wav file (app.py 172-174)
ConvertDone ==
    /\ pc = "converting"
    /\ \E wav_written \in BOOLEAN :
           LET k == wem_counts[1] + 1
               msgs == <<<<"files converted", k, wem_counts[2], call.part>>>>
           IN  /\ audio_converted' =
                      IF wav_written
                      THEN [audio_converted EXCEPT ![call.part] =
                                                      WriteWav(@, proc.item, call.part)]
                      ELSE audio_converted
               /\ Emit(msgs)
               /\ call' = Noted(msgs, <<[op |-> "convert", item |-> proc.item,
                                         done |-> wav_written]>>, <<>>)
               /\ wem_counts' = <<k, wem_counts[2]>>
    /\ proc' = NoProc
    /\ pc' = "wems"
    /\ UNCHANGED <<mapVars, envVars, banks_converted, wiki_json, guiVars,
                   is_running, calls, groupVars, renameVars, last, completed,
                   settings, banks, bank_counts, wems, stop_mark>>

Next ==
    \/ \E should_group, should_rename \in BOOLEAN :
           StartProcessing(FALSE, FALSE, should_group, should_rename)
    \/ StopProcessing
    \/ RunBegin
    \/ GroupEnter
    \/ GroupWalk
    \/ GroupLine
    \/ RenameEnter
    \/ RenameFolder
    \/ RenameSound
    \/ RunEnd
    \/ ProcessingFinished

Spec == Init /\ [][Next]_vars

(***************************************************************************)
(* One run of the whole pipeline: any of the four checkboxes, the decoding  *)
(* and conversion stages with their external tools, on a freshly unpacked   *)
(* game.                                                                    *)
(***************************************************************************)
AmbBnk == Amb01 \o DotBnk

VoBnk == Vo02 \o DotBnk

Wem100 == Id100 \o DotWem

Wem101 == Id101 \o DotWem

\* the unpacked data: bank AMB_01 and its two sounds under Shared; under
\* SharedDev bank Vo_02 or no bank, and no sound
UnpackedTrees ==
    {[d \in SourceDirs |->
         IF d = src_banks("Shared") THEN {AmbBnk}
         ELSE IF d = src_sound("Shared") THEN {Wem100, Wem101}
         ELSE IF d = src_banks("SharedDev") THEN dev
         ELSE {}] : dev \in {{}, {VoBnk}}}

\* the machines and output folders the run starts on: the mapping names both
\* sounds of AMB_01 Door_0; the converted-banks tree is empty or holds a
\* descriptor of an earlier decoding that is no text
RunScenarios ==
    {[os    |-> o,
      vgm   |-> v,
      tree  |-> t,
      wiki  |-> WikiLoaded(<<PageAmbAlt>>),
      banks |-> [p \in Partitions |-> IF p = "Shared" THEN old ELSE EmptyDict],
      audio |-> [p \in Partitions |-> NoFiles]] :
        o \in {"posix", "nt"},
        v \in BOOLEAN,
        t \in UnpackedTrees,
        old \in {EmptyDict, (Vo02 :> XmlUnreadable)}}

RunInit ==
    /\ \E sc \in RunScenarios :
          /\ os_name = sc.os
          /\ vgmstream_dir = sc.vgm
          /\ unpacked = sc.tree
          /\ wiki_json = sc.wiki
          /\ banks_converted = sc.banks
          /\ audio_converted = [p \in Partitions |-> StartTree(p, sc.audio[p])]
    /\ content = <<>>
    /\ table = NoTable
    /\ id_dict = EmptyDict
    /\ built = FALSE
    /\ start_enabled = TRUE
    /\ stop_enabled = FALSE
    /\ runs = MaxRuns - 1
    /\ WorkerIdle
    /\ App2Idle

RunNext ==
    \/ \E should_decode_banks, should_convert, should_group, should_rename
              \in BOOLEAN :
           StartProcessing(should_decode_banks, should_convert, should_group,
                           should_rename)
    \/ StopProcessing
    \/ RunBegin
    \/ DecodeEnter
    \/ DecodeBank
    \/ DecodeDone
    \/ ConvertEnter
    \/ ConvertWem
    \/ ConvertDone
    \/ GroupEnter
    \/ GroupWalk
    \/ GroupLine
    \/ RenameEnter
    \/ RenameFolder
    \/ RenameSound
    \/ RunEnd
    \/ ProcessingFinished

SpecRun == RunInit /\ [][RunNext]_vars

(***************************************************************************)
(* app2.py: process_bnk_file on one bank, with its decoder and the XML the  *)
(* decoder leaves.                                                          *)
(***************************************************************************)
\* what the decoder process does: subprocess.run raises or returns with an
\* exit status, and the XML file is or is not there afterwards
ToolRuns ==
    [raises : BOOLEAN, returncode : {0, 1}, xml_created : BOOLEAN]

\* the XML the decoder leaves: well-formed or not, and the ID attributes of
\* its SoundSFX/EmbeddedFile elements in document order, <<>> for none
XmlDocs ==
    [wellformed : BOOLEAN, ids : SeqUpTo(IdStrings \cup {<<>>}, MaxSourceLines)]

BankTasks ==
    [bank_name : {Amb01, Vo02}, tool : ToolRuns, doc : XmlDocs]

\* decode_bnk_file (app2.py 125-162): whether it returns the path of the XML
\* (None otherwise) and what it gives to logger.error
decode_bnk_file(tool) ==
    IF tool.raises
    THEN [xml_path |-> FALSE, errors |-> <<<<"Error decoding">>>>]
    ELSE IF tool.returncode # 0
    THEN [xml_path |-> FALSE, errors |-> <<<<"Failed to decode">>>>]
    ELSE IF ~tool.xml_created
    THEN [xml_path |-> FALSE, errors |-> <<<<"XML file not created">>>>]
    ELSE [xml_path |-> TRUE, errors |-> <<>>]

\* the entry parse_bnk_xml makes for a file ID (app2.py 187-191)
SoundFile(file_id) ==
    [wem_filename |-> file_id \o DotWem, wav_filename |-> file_id \o DotWem \o DotWav]

\* the loop over the EmbeddedFile elements (app2.py 184-191)
RECURSIVE AddSoundFiles(_, _)
AddSoundFiles(sound_files, ids) ==
    IF ids = <<>> THEN sound_files
    ELSE AddSoundFiles(IF Head(ids) # <<>>
                       THEN DictSet(sound_files, Head(ids), SoundFile(Head(ids)))
                       ELSE sound_files,
                       Tail(ids))

\* a parser that lets the error of a malformed file out
parse_bnk_xml_Raising(name, doc) ==
    IF ~doc.wellformed
    THEN [raised |-> TRUE, bank_info |-> None, errors |-> <<>>]
    ELSE [raised |-> FALSE,
          bank_info |-> [name |-> name,
                         sound_files |-> AddSoundFiles(EmptyDict, doc.ids)],
          errors |-> <<>>]

\* parse_bnk_xml (app2.py 164-210): every exception is caught and logged
parse_bnk_xml(name, doc) ==
    IF ~doc.wellformed
    THEN [raised |-> FALSE,
          bank_info |-> [name |-> name, sound_files |-> EmptyDict],
          errors |-> <<<<"Error parsing XML">>>>]
    ELSE [raised |-> FALSE,
          bank_info |-> [name |-> name,
                         sound_files |-> AddSoundFiles(EmptyDict, doc.ids)],
          errors |-> <<>>]

\* process_bnk_file (app2.py 298-313)
process_bnk_file(task) ==
    LET decoded == decode_bnk_file(task.tool)
        parsed == parse_bnk_xml(task.bank_name, task.doc)
    IN  IF decoded.xml_path
        THEN [raised |-> parsed.raised,
              result |-> <<task.bank_name, parsed.bank_info>>,
              errors |-> parsed.errors]
        ELSE [raised |-> FALSE,
              result |-> <<task.bank_name,
                           [name |-> task.bank_name, sound_files |-> EmptyDict]>>,
              errors |-> decoded.errors]

\* app2 is about to call process_bnk_file; app.py's window is not there
BankInit ==
    /\ bnk_task \in BankTasks
    /\ bank_result = None
    /\ errors = <<>>
    /\ os_name = "posix"
    /\ unpacked = NothingUnpacked
    /\ vgmstream_dir = TRUE
    /\ wiki_json = WikiMissing
    /\ banks_converted = [p \in Partitions |-> EmptyDict]
    /\ audio_converted = [p \in Partitions |-> StartTree(p, NoFiles)]
    /\ content = <<>>
    /\ table = NoTable
    /\ id_dict = EmptyDict
    /\ built = FALSE
    /\ start_enabled = FALSE
    /\ stop_enabled = FALSE
    /\ runs = 0
    /\ WorkerIdle
    /\ ExtraIdle

\* the call of process_bnk_file for the bank
ProcessBnkFile ==
    /\ bnk_task # NoTask
    /\ bank_result = None
    /\ LET out == process_bnk_file(bnk_task)
       IN  /\ bank_result' = (IF out.raised THEN <<"raised">> ELSE out.result)
           /\ errors' = errors \o out.errors
    /\ UNCHANGED <<bnk_task, mapVars, os_name, unpacked, vgmstream_dir, fsVars,
                   wiki_json, guiVars, workerVars, unitVars, extraVars>>

BankNext == ProcessBnkFile

SpecBank == BankInit /\ [][BankNext]_vars

(***************************************************************************)
(* One line of a descriptor, read as create_banks_folders reads it          *)
(* (app.py 190-193; the same three lines are in create_wiki.py 91-93).      *)
(***************************************************************************)
\* the characters of the lines tried around the marker
LineChars == {"\"", "1", "="}

\* descriptor lines that hold the marker: the line of the decoder's XML, and
\* the marker with up to MaxTail characters before and after it
DescriptorLines ==
    {SourceLine(id) : id \in IdStrings}
    \cup {before \o SourceIdMarker \o after :
             before \in SeqUpTo(LineChars, MaxTail),
             after \in SeqUpTo(LineChars, MaxTail)}

\* the window, the worker and app2 are not there
LineInit ==
    /\ descriptor_line \in DescriptorLines \cup {HeaderLine}
    /\ line_ids = None
    /\ bnk_task = NoTask
    /\ bank_result = None
    /\ errors = <<>>
    /\ os_name = "posix"
    /\ unpacked = NothingUnpacked
    /\ vgmstream_dir = TRUE
    /\ wiki_json = WikiMissing
    /\ banks_converted = [p \in Partitions |-> EmptyDict]
    /\ audio_converted = [p \in Partitions |-> StartTree(p, NoFiles)]
    /\ content = <<>>
    /\ table = NoTable
    /\ id_dict = EmptyDict
    /\ built = FALSE
    /\ WindowInit
    /\ WorkerIdle
    /\ DictIdle
    /\ data_tree = [d \in {} |-> {}]

\* the body of "for line in bank_file_content" up to the file name
\* (app.py 190-193): a line without the marker gives no ID
ReadLine ==
    /\ line_ids = None
    /\ line_ids' = (IF Contains(descriptor_line, SourceIdMarker)
                    THEN LineSourceId(descriptor_line)
                    ELSE <<"skipped">>)
    /\ UNCHANGED <<descriptor_line, mapVars, os_name, unpacked, vgmstream_dir,
                   app2Vars, fsVars, wiki_json, guiVars, workerVars, unitVars,
                   dictVars>>

LineNext == ReadLine

SpecLine == LineInit /\ [][LineNext]_vars

(***************************************************************************)
(* app2: the search for the .bnk files of the unpacked data folder          *)
(* (find_bnk_files, app2.py 212-294).  A directory is the tuple of the      *)
(* names that lead to it from unpacked_data_folder; its path is their join. *)
(***************************************************************************)
\* the text of unpacked_data_folder
UnpackedData == <<"U">>

PublicName == <<"P", "u", "b", "l", "i", "c">>

SharedName == <<"S", "h", "a", "r", "e", "d">>

SharedDevName == SharedName \o <<"D", "e", "v">>

DataName == <<"D", "a", "t", "a">>

SharedSoundBanksName ==
    SharedName \o <<"S", "o", "u", "n", "d", "B", "a", "n", "k", "s">>

ModsName == <<"M", "o", "d", "s">>

\* os.path.join(base, *names)
RECURSIVE PathJoin(_, _)
PathJoin(base, names) ==
    IF names = <<>> THEN base
    ELSE PathJoin(base \o <<"/">> \o Head(names), Tail(names))

\* the path of a directory of the unpacked data folder
PathOf(dir) == PathJoin(UnpackedData, dir)

\* the places tried for Shared, in the order tried (app2.py 235-240)
possible_shared_paths ==
    <<<<PublicName, SharedName>>,
      <<SharedName>>,
      <<DataName, PublicName, SharedName>>,
      <<SharedSoundBanksName, PublicName, SharedName>>>>

\* the places tried for SharedDev, in the order tried (app2.py 242-247)
possible_shared_dev_paths ==
    <<<<PublicName, SharedDevName>>,
      <<SharedDevName>>,
      <<DataName, PublicName, SharedDevName>>,
      <<SharedSoundBanksName, PublicName, SharedDevName>>>>

\* the directories of the model that may hold files: Public/Shared,
\* Public/SharedDev, a SharedDev next to Public, and Mods
DataDirs ==
    {<<PublicName, SharedName>>, <<PublicName, SharedDevName>>,
     <<SharedDevName>>, <<ModsName>>}

\* the file names of the model: a bank and a file that is no bank
DataFileNames == {<<"a">> \o DotBnk, <<"n", ".", "t", "x", "t">>}

NoDir == [exists |-> FALSE, files |-> {}]

\* the unpacked data folders of the model: each directory is absent or
\* holds up to MaxDirFiles files
DataTrees ==
    [DataDirs ->
        {NoDir} \cup {[exists |-> TRUE, files |-> fs] :
                         fs \in {x \in SUBSET DataFileNames :
                                     Cardinality(x) <= MaxDirFiles}}]

\* dir is base or lies below it
IsUnder(dir, base) ==
    /\ Len(base) <= Len(dir)
    /\ \A i \in 1..Len(base) : dir[i] = base[i]

\* os.path.exists for a directory of the unpacked data folder
DirExists(tree, dir) == \E d \in DataDirs : tree[d].exists /\ IsUnder(d, dir)

\* "for path in possible: if os.path.exists(path): ... break" (app2.py
\* 249-259): the index of the place found, 0 for None
FirstExisting(tree, possible) ==
    IF \E i \in 1..Len(possible) : DirExists(tree, possible[i])
    THEN CHOOSE i \in 1..Len(possible) :
             /\ DirExists(tree, possible[i])
             /\ \A j \in 1..(i - 1) : ~DirExists(tree, possible[j])
    ELSE 0

\* the (root, file) pairs of os.walk whose file is a bank (app2.py 270-272)
WalkBnk(tree) ==
    {p \in [root : DataDirs, file : DataFileNames] :
        /\ tree[p.root].exists
        /\ p.file \in tree[p.root].files
        /\ EndsWith(lower(p.file), DotBnk)}

Categories == {"Other", "Shared", "SharedDev"}

\* "shared_path in root" (app2.py 276, 278): a test on the text of the paths
InPath(root, dir) == Contains(PathOf(root), PathOf(dir))

\* find_bnk_files (app2.py 212-294): the banks found, by category;
\* a category without a bank is not in the result
find_bnk_files(tree, only_shared, only_dev) ==
    LET s == FirstExisting(tree, possible_shared_paths)
        d == FirstExisting(tree, possible_shared_dev_paths)
        InShared(p) ==
            s # 0 /\ ~only_dev /\ InPath(p.root, possible_shared_paths[s])
        InSharedDev(p) ==
            /\ ~InShared(p)
            /\ d # 0 /\ ~only_shared /\ InPath(p.root, possible_shared_dev_paths[d])
        found == WalkBnk(tree)
        every == [c \in Categories |->
                    {p \in found :
                        CASE c = "Shared" -> InShared(p)
                          [] c = "SharedDev" -> InSharedDev(p)
                          [] OTHER -> ~InShared(p) /\ ~InSharedDev(p)}]
    IN  [c \in {x \in Categories : every[x] # {}} |-> every[c]]

(***************************************************************************)
(* app2: the window of the dictionary builder and its worker thread         *)
(* (BG3SoundsDictionaryApp and BankProcessingWorker).  The signals          *)
(* finished and error cross from the worker's thread to the window's and    *)
(* wait in a queue; log_message and progress_update only write to the log   *)
(* and the progress bar.  What process_bnk_file returns for a bank is the   *)
(* matter of SpecBank: here a bank is its name.                             *)
(***************************************************************************)
\* the other box stays as it is
Uncheck_Never(other_checked, this_checked) == other_checked

\* the slot of a box's clicked signal (app2.py 455-456): what the other box
\* shows afterwards, given what this box shows after the click
Uncheck(other_checked, this_checked) ==
    IF this_checked THEN FALSE ELSE other_checked

\* the order of the keys of bnk_files (app2.py 224, 262, 266)
CategoryOrder == <<"Other", "Shared", "SharedDev">>

\* the folder "for folder, files in bnk_files.items()" is at
CurrentFolder(todo) ==
    CategoryOrder[CHOOSE i \in 1..3 :
                      /\ \E t \in todo : t.folder = CategoryOrder[i]
                      /\ \A j \in 1..(i - 1) :
                             \A t \in todo : t.folder # CategoryOrder[j]]

\* os.path.basename(bnk_file).replace(".bnk", "") (app2.py 90)
BnkBankName(file) ==
    IF EndsWith(file, DotBnk) THEN Slice(file, 1, Len(file) - Len(DotBnk))
    ELSE file

\* all_banks[folder][bank_name] = bank_info, after all_banks[folder] = {}
AddBank(found, folder, name) ==
    [c \in DOMAIN found \cup {folder} |->
        IF c = folder
        THEN (IF c \in DOMAIN found THEN found[c] ELSE {}) \cup {name}
        ELSE found[c]]

FinishedSignal(payload) == [signal |-> "finished", payload |-> payload]

ErrorSignal(text) == [signal |-> "error", payload |-> text]

LogSignal(text) == [signal |-> "log_message", payload |-> text]

\* the window of app2 is up, app.py's is not
DictInit ==
    /\ data_tree \in DataTrees
    /\ DictIdle
    /\ LineIdle
    /\ bnk_task = NoTask
    /\ bank_result = None
    /\ errors = <<>>
    /\ os_name = "posix"
    /\ unpacked = NothingUnpacked
    /\ vgmstream_dir = TRUE
    /\ wiki_json = WikiMissing
    /\ banks_converted = [p \in Partitions |-> EmptyDict]
    /\ audio_converted = [p \in Partitions |-> StartTree(p, NoFiles)]
    /\ content = <<>>
    /\ table = NoTable
    /\ id_dict = EmptyDict
    /\ built = FALSE
    /\ start_enabled = FALSE
    /\ stop_enabled = FALSE
    /\ runs = 0
    /\ WorkerIdle

\* what the actions of app2's window leave alone
DictFrame ==
    UNCHANGED <<mapVars, os_name, unpacked, vgmstream_dir, app2Vars, fsVars,
                wiki_json, guiVars, workerVars, unitVars, lineVars, data_tree>>

\* a click on "Process only Shared": the box toggles, then its slot runs
\* (app2.py 455)
ClickSharedOnly ==
    /\ shared_only_box' = ~shared_only_box
    /\ shareddev_only_box' = Uncheck(shareddev_only_box, ~shared_only_box)
    /\ UNCHANGED <<start_btn, cancel_btn, save_btn, progress_label, all_banks,
                   worker_opts, is_cancelled, bank_pc, bnk_files, bank_todo,
                   run_banks, emitted, queued>>
    /\ DictFrame

\* a click on "Process only SharedDev" (app2.py 456)
ClickSharedDevOnly ==
    /\ shareddev_only_box' = ~shareddev_only_box
    /\ shared_only_box' = Uncheck(shared_only_box, ~shareddev_only_box)
    /\ UNCHANGED <<start_btn, cancel_btn, save_btn, progress_label, all_banks,
                   worker_opts, is_cancelled, bank_pc, bnk_files, bank_todo,
                   run_banks, emitted, queued>>
    /\ DictFrame

\* BG3SoundsDictionaryApp.start_processing (app2.py 559-603) with both
\* paths filled in and present
StartBankProcessing ==
    /\ start_btn
    /\ worker_opts' = [shared_only |-> shared_only_box,
                       shareddev_only |-> shareddev_only_box]
    /\ is_cancelled' = FALSE
    /\ bank_pc' = "started"
    /\ bnk_files' = [x \in {} |-> {}]
    /\ bank_todo' = {}
    /\ run_banks' = [x \in {} |-> {}]
    /\ emitted' = <<>>
    /\ start_btn' = FALSE
    /\ cancel_btn' = TRUE
    /\ save_btn' = FALSE
    /\ progress_label' = "Starting..."
    /\ UNCHANGED <<shared_only_box, shareddev_only_box, all_banks, queued>>
    /\ DictFrame

\* BankProcessingWorker.run up to its loop over the folders (app2.py 59-79):
\* the decoder may have gone since the window looked for it
BankRunFind ==
    /\ bank_pc = "started"
    /\ \E present \in BOOLEAN :
          LET found == find_bnk_files(data_tree, worker_opts.shared_only,
                                     worker_opts.shareddev_only)
              missing == ErrorSignal("Required dependency not found")
              nothing == ErrorSignal("No BNK files found in the specified location")
          IN  IF ~present
              THEN /\ emitted' = emitted \o <<missing>>
                   /\ queued' = queued \o <<missing>>
                   /\ bank_pc' = "returned"
                   /\ UNCHANGED <<bnk_files, bank_todo>>
              ELSE /\ bnk_files' = found
                   /\ IF DOMAIN found = {}
                      THEN /\ emitted' = emitted \o <<LogSignal("Finding BNK files..."),
                                                       LogSignal("Found n BNK files to process"),
                                                       nothing>>
                           /\ queued' = queued \o <<nothing>>
                           /\ bank_pc' = "returned"
                           /\ UNCHANGED bank_todo
                      ELSE /\ emitted' = emitted \o <<LogSignal("Finding BNK files..."),
                                                       LogSignal("Found n BNK files to process")>>
                           /\ bank_todo' =
                                  {t \in [folder : DOMAIN found, root : DataDirs,
                                          file : DataFileNames] :
                                      [root |-> t.root, file |-> t.file]
                                          \in found[t.folder]}
                           /\ bank_pc' = "processing"
                           /\ UNCHANGED queued
    /\ UNCHANGED <<shared_only_box, shareddev_only_box, start_btn, cancel_btn,
                   save_btn, progress_label, all_banks, worker_opts,
                   is_cancelled, run_banks>>
    /\ DictFrame

\* one result of executor.map taken by the loop of run (app2.py 82-107): the
\* folders in the order of the keys, the files of a folder in the order
\* os.walk gave them; after the last result of the last folder, finished
BankRunResult ==
    /\ bank_pc = "processing"
    /\ \E t \in bank_todo :
          /\ t.folder = CurrentFolder(bank_todo)
          /\ IF is_cancelled
             THEN /\ emitted' = emitted \o <<LogSignal("Processing cancelled")>>
                  /\ bank_pc' = "returned"
                  /\ UNCHANGED <<bank_todo, run_banks, queued>>
             ELSE LET now == AddBank(run_banks, t.folder, BnkBankName(t.file))
                  IN  /\ run_banks' = now
                      /\ bank_todo' = bank_todo \ {t}
                      /\ IF bank_todo \ {t} = {}
                         THEN /\ emitted' = emitted \o <<FinishedSignal(now)>>
                              /\ queued' = queued \o <<FinishedSignal(now)>>
                              /\ bank_pc' = "returned"
                         ELSE UNCHANGED <<emitted, queued, bank_pc>>
    /\ UNCHANGED <<shared_only_box, shareddev_only_box, start_btn, cancel_btn,
                   save_btn, progress_label, all_banks, worker_opts,
                   is_cancelled, bnk_files>>
    /\ DictFrame

\* QThread.isRunning() of the worker
BankWorkerRunning == bank_pc \in {"started", "processing"}

\* BG3SoundsDictionaryApp.cancel_processing (app2.py 649-655)
CancelProcessing ==
    /\ cancel_btn
    /\ IF BankWorkerRunning
       THEN /\ is_cancelled' = TRUE
            /\ cancel_btn' = FALSE
            /\ progress_label' = "Cancelling..."
       ELSE UNCHANGED <<is_cancelled, cancel_btn, progress_label>>
    /\ UNCHANGED <<shared_only_box, shareddev_only_box, start_btn, save_btn,
                   all_banks, worker_opts, bank_pc, bnk_files, bank_todo,
                   run_banks, emitted, queued>>
    /\ DictFrame

\* BG3SoundsDictionaryApp.processing_finished (app2.py 616-639), the slot
\* of finished
BankProcessingFinished ==
    /\ queued # <<>>
    /\ Head(queued).signal = "finished"
    /\ queued' = Tail(queued)
    /\ all_banks' = Head(queued).payload
    /\ start_btn' = TRUE
    /\ cancel_btn' = FALSE
    /\ save_btn' = TRUE
    /\ progress_label' = "Processing completed"
    /\ UNCHANGED <<shared_only_box, shareddev_only_box, worker_opts,
                   is_cancelled, bank_pc, bnk_files, bank_todo, run_banks,
                   emitted>>
    /\ DictFrame

\* BG3SoundsDictionaryApp.show_error (app2.py 641-647), the slot of error
ShowError ==
    /\ queued # <<>>
    /\ Head(queued).signal = "error"
    /\ queued' = Tail(queued)
    /\ start_btn' = TRUE
    /\ cancel_btn' = FALSE
    /\ progress_label' = "Error occurred"
    /\ UNCHANGED <<shared_only_box, shareddev_only_box, save_btn, all_banks,
                   worker_opts, is_cancelled, bank_pc, bnk_files, bank_todo,
                   run_banks, emitted>>
    /\ DictFrame

DictNext ==
    \/ ClickSharedOnly
    \/ ClickSharedDevOnly
    \/ StartBankProcessing
    \/ BankRunFind
    \/ BankRunResult
    \/ CancelProcessing
    \/ BankProcessingFinished
    \/ ShowError

SpecDict == DictInit /\ [][DictNext]_vars

(***************************************************************************)
(* Claims about the ID-map construction (checked under SpecIdMap).          *)
(***************************************************************************)
\* the content "1\nFootsteps\n100, 101\n", character by character
ScenarioContent ==
    <<"1", "\n", "F", "o", "o", "t", "s", "t", "e", "p", "s", "\n",
      "1", "0", "0", ",", " ", "1", "0", "1", "\n">>

\* {"100": "Footsteps_0", "101": "Footsteps_1"}
ScenarioIdMap ==
    (<<"1", "0", "0">> :> <<"F", "o", "o", "t", "s", "t", "e", "p", "s", "_", "0">>)
    @@ (<<"1", "0", "1">> :> <<"F", "o", "o", "t", "s", "t", "e", "p", "s", "_", "1">>)

\* the ID-map construction has run on a content written from a table
BuiltFromTable == built /\ table.kind = "table"

\* the places (row r, position p, both from 1) of the IDs of the table
Places ==
    UNION {{<<r, p>> : p \in 1..Len(table.rows[r].ids)} : r \in 1..Len(table.rows)}

IdAt(rp) == table.rows[rp[1]].ids[rp[2]]

\* rp comes before rq in reading order
Before(rp, rq) == rp[1] < rq[1] \/ (rp[1] = rq[1] /\ rp[2] < rq[2])

\* the ID at rp is not written again further down the table
LastOccurrence(rp) == \A rq \in Places : Before(rp, rq) => IdAt(rq) # IdAt(rp)

CommaCount(sep) == Cardinality({i \in 1..Len(sep) : sep[i] = ","})

\* zero-based position of the p-th ID of a row among the pieces its id-list
\* line falls into when split on commas
RawPosition(p) == (p - 1) * CommaCount(table.sep)

IndexedName(name, n) == name \o <<"_">> \o IntToStr(n)

\* C1 as stated: every ID token of every group is mapped to the name of its
\* group followed by its zero-based position in the comma-separated list;
\* the content "1\nFootsteps\n100, 101\n" gives exactly
\* {"100": "Footsteps_0", "101": "Footsteps_1"}.
C1_AsStated ==
    /\ BuiltFromTable =>
          \A rp \in Places :
              /\ IdAt(rp) \in DOMAIN id_dict
              /\ id_dict[IdAt(rp)]
                   = IndexedName(table.rows[rp[1]].name, RawPosition(rp[2]))
    /\ (built /\ content = ScenarioContent) => id_dict = ScenarioIdMap

\* C1 (amended): every ID token of every group is a key of the map; the
\* empty tokens of an id-list are dropped before the positions are counted,
\* and an ID that is not written again further down the table is mapped to
\* the name of its group followed by its zero-based position among the
\* non-empty tokens; the content "1\nFootsteps\n100, 101\n" gives exactly
\* {"100": "Footsteps_0", "101": "Footsteps_1"}.
C1_IdMapsToIndexedName ==
    /\ BuiltFromTable =>
          \A rp \in Places :
              /\ IdAt(rp) \in DOMAIN id_dict
              /\ LastOccurrence(rp) =>
                    id_dict[IdAt(rp)]
                      = IndexedName(table.rows[rp[1]].name, rp[2] - 1)
    /\ (built /\ content = ScenarioContent) => id_dict = ScenarioIdMap

\* C1 witness: the scenario content has been parsed.
C1_Witness ==
    /\ built
    /\ table = ScenarioTable
    /\ content = ScenarioContent
    /\ id_dict = ScenarioIdMap

AllIds == {IdAt(rp) : rp \in Places}

\* no ID string is written twice in the table
IdsDistinct == \A rp, rq \in Places : rp # rq => IdAt(rp) # IdAt(rq)

\* the entries of the map keyed by the IDs of row r
EntriesOfRow(r) ==
    {k \in DOMAIN id_dict : \E p \in 1..Len(table.rows[r].ids) : k = table.rows[r].ids[p]}

\* C2 as stated: for a well-formed table the map holds exactly len(ids)
\* entries per triple, one per raw ID string, so its size is the sum of the
\* id-list lengths.
C2_AsStated ==
    BuiltFromTable =>
        /\ DOMAIN id_dict = AllIds
        /\ \A r \in 1..Len(table.rows) :
               Cardinality(EntriesOfRow(r)) = Len(table.rows[r].ids)
        /\ Cardinality(DOMAIN id_dict) = SumIdLists(table.rows, 1)

\* C2 (amended): for a well-formed table the keys of the map are exactly the
\* raw ID strings of its triples; when no ID string is written twice in the
\* table, the map holds exactly len(ids) entries per triple and its size is
\* the sum of the id-list lengths (otherwise it is smaller).
C2_OneEntryPerDistinctId ==
    BuiltFromTable =>
        /\ DOMAIN id_dict = AllIds
        /\ Cardinality(DOMAIN id_dict) <= SumIdLists(table.rows, 1)
        /\ IdsDistinct =>
              /\ \A r \in 1..Len(table.rows) :
                     Cardinality(EntriesOfRow(r)) = Len(table.rows[r].ids)
              /\ Cardinality(DOMAIN id_dict) = SumIdLists(table.rows, 1)
        /\ ~IdsDistinct =>
              Cardinality(DOMAIN id_dict) < SumIdLists(table.rows, 1)

\* C2 witness: a table of two triples with distinct IDs, under a heading, has
\* been parsed into two entries.
C2_Witness ==
    /\ BuiltFromTable
    /\ table.heading # <<>>
    /\ Len(table.rows) = 2
    /\ IdsDistinct
    /\ Cardinality(DOMAIN id_dict) = 2

\* C11: when the same ID token occurs more than once in one page's table
\* (within one id-list or in different triples), the ID-map holds a single
\* entry for that ID, and its display name is the one the last occurrence in
\* reading order produces.
C11_LastWriteWins ==
    BuiltFromTable =>
        /\ Cardinality(DOMAIN id_dict) = Cardinality(AllIds)
        /\ \A rp, rq \in Places :
               (IdAt(rq) = IdAt(rp) /\ LastOccurrence(rq)) =>
                   id_dict[IdAt(rp)]
                     = IndexedName(table.rows[rq[1]].name, rq[2] - 1)

\* C11 witness: 100 is written twice in the id-list of Footsteps and once
\* more under Door; the map holds the one entry 100 -> Door_0.
C11_Witness ==
    /\ BuiltFromTable
    /\ Len(table.rows) = 2
    /\ table.rows[1] = [name |-> Footsteps, ids |-> <<Id100, Id100>>]
    /\ table.rows[2] = [name |-> Door, ids |-> <<Id100>>]
    /\ id_dict = (Id100 :> IndexedName(Door, 0))

\* the line consists purely of decimal digits
DigitLine(line) ==
    /\ line # <<>>
    /\ \A j \in 1..Len(line) :
           line[j] \in {"0", "1", "2", "3", "4", "5", "6", "7", "8", "9"}

\* the number of lines before the table: those before the first digit line,
\* none when there is no digit line
LinesBefore(lines) ==
    IF \E i \in 1..Len(lines) : DigitLine(lines[i])
    THEN Cardinality({i \in 1..Len(lines) : \A j \in 1..i : ~DigitLine(lines[j])})
    ELSE 0

\* the groups (from 0) that have their three lines, at a stride of three
\* from line number before (from 0)
FullGroups(lines, before) ==
    {g \in 0..Len(lines) : before + 3 * g + 3 <= Len(lines)}

\* the entries a group of three lines stands for: its ID tokens, each with
\* the name line and its position
GroupEntries(name_line, ids) ==
    {<<ids[i], IndexedName(name_line, i - 1)>> : i \in 1..Len(ids)}

\* the entries of all full groups of the content
ContentEntries ==
    LET lines  == ContentLines(content)
        before == LinesBefore(lines)
    IN  UNION {GroupEntries(lines[before + 3 * g + 2],
                            IdTokens(lines[before + 3 * g + 3])) :
                  g \in FullGroups(lines, before)}

\* C12: the table starts at the first non-empty, trimmed line that consists
\* purely of decimal digits, at line 0 when there is none; from there groups
\* are taken at a stride of three lines, and a trailing group of fewer than
\* three lines contributes no entry: the keys of the map are exactly the ID
\* tokens of the third lines of the full groups, each named after the second
\* line of one of them.
C12_StartAndStride ==
    built =>
        LET entries == ContentEntries
        IN  /\ DOMAIN id_dict = {e[1] : e \in entries}
            /\ \A k \in DOMAIN id_dict : <<k, id_dict[k]>> \in entries

\* C12 witness: a table under a heading line, followed by an index line and
\* a name line without an id-list; the map holds the entries of the full
\* triple only.
C12_Witness ==
    /\ BuiltFromTable
    /\ table.heading # <<>>
    /\ Len(table.rest) = 2
    /\ Len(table.rows) = 1
    /\ Len(ContentLines(content)) = 6
    /\ LinesBefore(ContentLines(content)) = 1
    /\ DOMAIN id_dict = {table.rows[1].ids[i] : i \in 1..Len(table.rows[1].ids)}

\* a content without a digit-only line is read from its first line
C12_WitnessNoDigitLine ==
    /\ built
    /\ table = NoTable
    /\ Len(ContentLines(content)) = 3
    /\ \A i \in 1..3 : ~DigitLine(ContentLines(content)[i])
    /\ id_dict # EmptyDict

(***************************************************************************)
(* Grouping (create_banks_folders), read off the record of the grouping     *)
(* pass that ended last.                                                    *)
(***************************************************************************)
GroupingPass == last.stage = "group"

\* the pass walked every bank folder and returned
GroupingDone == GroupingPass /\ last.outcome = "returned"

\* the descriptor of bank b of the partition has a sourceID line for id
Names(b, id) ==
    \E i \in 1..Len(banks_converted[last.part][b].lines) :
        banks_converted[last.part][b].lines[i] = SourceLine(id)

\* the k-th bank the pass processed is the first one whose descriptor names id
FirstToName(k, id) ==
    /\ Names(last.order[k], id)
    /\ \A j \in 1..(k - 1) : ~Names(last.order[j], id)

\* the places (subdirectory, file name) of the tree holding the content c
Holders(tree, c) ==
    {dn \in UNION {{<<d, n>> : n \in DOMAIN tree.dirs[d]} : d \in DOMAIN tree.dirs} :
        tree.dirs[dn[1]][dn[2]] = c}

\* C3: after create_banks_folders has run to completion for a partition, for
\* every bank with a descriptor and every ID on a sourceID line of it, if
\* {id}.wem.wav was in the loose directory and no bank processed earlier
\* names the ID, that file is in the subdirectory named after the bank and no
\* longer in the loose directory.
C3_GroupedIntoFirstBank ==
    GroupingDone =>
        \A k \in 1..Len(last.order), id \in IdStrings :
            (FirstToName(k, id) /\ (id \o WemWav) \in DOMAIN last.start.files) =>
                /\ last.order[k] \in DOMAIN last.end.dirs
                /\ (id \o WemWav) \in DOMAIN last.end.dirs[last.order[k]]
                /\ last.end.dirs[last.order[k]][id \o WemWav]
                     = last.start.files[id \o WemWav]
                /\ (id \o WemWav) \notin DOMAIN last.end.files

\* C3 witness: loose 100.wem.wav, bank AMB_01 the first to name 100, ended as
\* AMB_01/100.wem.wav.
C3_Witness ==
    /\ GroupingDone
    /\ last.part = "Shared"
    /\ File100 \in DOMAIN last.start.files
    /\ \E k \in 1..Len(last.order) : last.order[k] = Amb01 /\ FirstToName(k, Id100)
    /\ File100 \in DOMAIN last.end.dirs[Amb01]
    /\ File100 \notin DOMAIN last.end.files

\* C13 as stated: for every bank subdirectory under a partition of the
\* converted-banks tree, create_banks_folders ensures that a same-named
\* subdirectory exists under the partition's loose-audio directory.
C13_AsStated ==
    GroupingDone =>
        \A b \in DOMAIN banks_converted[last.part] : b \in DOMAIN last.end.dirs

\* C13 (amended): a pass of create_banks_folders that walks the whole
\* partition ensures a same-named subdirectory under the loose-audio
\* directory for every bank subdirectory that holds a .bnk.xml descriptor,
\* before it reads the descriptor: it creates the subdirectory when absent
\* and raises no error when it exists, keeping the files in it that the pass
\* does not replace.  For a bank subdirectory without a descriptor nothing is
\* created.
C13_SubdirForEachDescriptor ==
    /\ pc = "lines" => bank_name \in DOMAIN audio_converted[call.part].dirs
    /\ GroupingPass => last.outcome \in {"returned", "cancelled"}
    /\ GroupingDone =>
          \A b \in DOMAIN banks_converted[last.part] :
              IF banks_converted[last.part][b].xml
              THEN /\ b \in DOMAIN last.end.dirs
                   /\ b \in DOMAIN last.start.dirs =>
                         \A n \in DOMAIN last.start.dirs[b] :
                             /\ n \in DOMAIN last.end.dirs[b]
                             /\ last.end.dirs[b][n] # last.start.dirs[b][n] =>
                                   \E i \in 1..Len(last.ops) :
                                       last.ops[i].file = n /\ last.ops[i].to = b
              ELSE b \in DOMAIN last.end.dirs <=> b \in DOMAIN last.start.dirs

\* C13 witness: AMB_01 has a descriptor naming a file that is not loose, and
\* Vo_02 has none: the pass created an empty AMB_01 and no Vo_02.
C13_Witness ==
    /\ GroupingDone
    /\ last.part = "Shared"
    /\ banks_converted["Shared"][Amb01].xml
    /\ ~banks_converted["Shared"][Vo02].xml
    /\ Amb01 \notin DOMAIN last.start.dirs
    /\ Amb01 \in DOMAIN last.end.dirs
    /\ last.end.dirs[Amb01] = EmptyDict
    /\ Vo02 \notin DOMAIN last.end.dirs

\* a subdirectory that was there already, with a file in it, is kept
C13_WitnessExisting ==
    /\ GroupingDone
    /\ Amb01 \in DOMAIN last.start.dirs
    /\ last.start.dirs[Amb01] # EmptyDict
    /\ last.ops = <<>>
    /\ last.end.dirs[Amb01] = last.start.dirs[Amb01]

\* the pass started on the tree the last full pass of the same stage left
SecondPass(stage) == last.stage = stage /\ last.prev = PassLeft(last.start)

\* C5: grouping is idempotent: a pass of create_banks_folders over the tree a
\* full pass left moves no file, raises no error and leaves the tree as it
\* found it.
C5_GroupingIdempotent ==
    SecondPass("group") =>
        /\ last.end = last.start
        /\ last.ops = <<>>
        /\ last.outcome \in {"returned", "cancelled"}

\* C5 witness: a second full pass over a tree in which the first pass had
\* moved the loose 100.wem.wav into AMB_01.
C5_Witness ==
    /\ SecondPass("group")
    /\ last.outcome = "returned"
    /\ last.part = "Shared"
    /\ Amb01 \in DOMAIN last.start.dirs
    /\ File100 \in DOMAIN last.start.dirs[Amb01]
    /\ last.start.dirs[Amb01][File100] = <<"Shared", <<>>, File100>>
    /\ last.order # <<>>

\* C7: a loose file is moved at most once and ends in exactly one bank
\* subdirectory: the one of the first bank processed whose descriptor names
\* its ID; banks processed later receive nothing for it, and grouping does not
\* raise.
C7_MovedOnceIntoFirstBank ==
    GroupingPass =>
        /\ last.outcome \in {"returned", "cancelled"}
        /\ \A i, j \in 1..Len(last.ops) :
               last.ops[i].file = last.ops[j].file => i = j
        /\ \A i \in 1..Len(last.ops) :
               \E k \in 1..Len(last.order), id \in IdStrings :
                   /\ last.ops[i].file = id \o WemWav
                   /\ last.ops[i].to = last.order[k]
                   /\ FirstToName(k, id)
        /\ \A f \in DOMAIN last.start.files :
               IF \E i \in 1..Len(last.ops) : last.ops[i].file = f
               THEN /\ f \notin DOMAIN last.end.files
                    /\ \E i \in 1..Len(last.ops) :
                           Holders(last.end, last.start.files[f])
                             = {<<last.ops[i].to, f>>}
               ELSE /\ f \in DOMAIN last.end.files
                    /\ Holders(last.end, last.start.files[f]) = {}

\* C7 witness: two banks name 100, the loose 100.wem.wav is in the
\* subdirectory of the one processed first and not in the other's.
C7_Witness ==
    /\ GroupingDone
    /\ Len(last.order) = 2
    /\ Names(last.order[1], Id100)
    /\ Names(last.order[2], Id100)
    /\ File100 \in DOMAIN last.start.files
    /\ File100 \in DOMAIN last.end.dirs[last.order[1]]
    /\ File100 \notin DOMAIN last.end.dirs[last.order[2]]
    /\ Len(last.ops) = 1

\* the k-th bank processed names an ID whose loose file an earlier bank of
\* the pass received
NamesTakenId(k) ==
    \E id \in IdStrings :
        /\ Names(last.order[k], id)
        /\ ~FirstToName(k, id)
        /\ (id \o WemWav) \in DOMAIN last.start.files

\* the notices of the pass that say "skipped" for bank b
SkippedNotices(b) ==
    {i \in 1..Len(last.msgs) :
        /\ Len(last.msgs[i]) = 2
        /\ last.msgs[i][1] = "skipped"
        /\ last.msgs[i][2] = b}

\* the number of announcements Worker.run and the stage make before the
\* first bank
Announcements == IF last.part = "Shared" THEN 2 ELSE 1

\* C8 as stated: when a bank's descriptor names an ID whose file an earlier
\* bank already received, grouping logs a "skipped" notice for the second
\* bank.
C8_AsStated ==
    GroupingDone =>
        \A k \in 1..Len(last.order) :
            NamesTakenId(k) => SkippedNotices(last.order[k]) # {}

\* C8 (amended): when a bank's descriptor names an ID whose file an earlier
\* bank already received, grouping logs nothing for that ID: the notices of a
\* full pass after its announcements are exactly one "Grouped files for bank
\* '<bank>'" per bank with a descriptor, in the order they were processed.
C8_NoSkippedNotice ==
    GroupingDone =>
        /\ Len(last.msgs) = Announcements + Len(last.order)
        /\ \A k \in 1..Len(last.order) :
               /\ last.msgs[Announcements + k]
                    = <<"Grouped files for bank", last.order[k]>>
               /\ SkippedNotices(last.order[k]) = {}

\* C8 witness: the second bank of a full pass names 100, whose file the first
\* bank received, and the pass logged its two "Grouped files" notices.
C8_Witness ==
    /\ GroupingDone
    /\ Len(last.order) = 2
    /\ NamesTakenId(2)
    /\ last.ops = <<[op |-> "move", file |-> File100, to |-> last.order[1]]>>
    /\ last.msgs[Len(last.msgs)] = <<"Grouped files for bank", last.order[2]>>

(***************************************************************************)
(* Renaming (rename_files), read off the record of the renaming pass that   *)
(* ended last and off the locals of the pass in progress.                   *)
(***************************************************************************)
RenamePass == last.stage = "rename"

\* the places in the mapping of the keys that contain the folder name, both
\* upper-cased
Matching(name) ==
    {i \in 1..Len(wiki_json.pages) :
        Contains(upper(wiki_json.pages[i].key), upper(name))}

\* the first of them in the order of the mapping
FirstMatching(name) ==
    CHOOSE i \in Matching(name) : \A j \in Matching(name) : i <= j

\* the ID-map of each page
IdMapOf == [pg \in Pages |-> BuildIdDict(pg.content)]

\* the ID-map of the page that matches folder d
PageIdMap(d) == IdMapOf[wiki_json.pages[FirstMatching(d)]]

\* the text of a file name before its first "."
Stem(n) == split(n, ".")[1]

\* C4 as stated: for each bank subdirectory with a matching page, a pass of
\* rename_files that is neither skipped nor cancelled renames every .wav
\* file of the subdirectory whose stem is a key of the page's ID-map to
\* {displayName}.wav in the same subdirectory, and leaves every file whose
\* stem is not a key untouched.
C4_AsStated ==
    (RenamePass /\ last.outcome \notin {"cancelled", "aborted"}) =>
        \A d \in DOMAIN last.start.dirs :
            Matching(d) # {} =>
                \A n \in DOMAIN last.start.dirs[d] :
                    IF EndsWith(n, DotWav) /\ Stem(n) \in DOMAIN PageIdMap(d)
                    THEN /\ n \notin DOMAIN last.end.dirs[d]
                         /\ (PageIdMap(d)[Stem(n)] \o DotWav) \in DOMAIN last.end.dirs[d]
                         /\ last.end.dirs[d][PageIdMap(d)[Stem(n)] \o DotWav]
                              = last.start.dirs[d][n]
                    ELSE /\ n \in DOMAIN last.end.dirs[d]
                         /\ last.end.dirs[d][n] = last.start.dirs[d][n]

\* C4 witness: on Windows, AMB_01 held 100.wem.wav next to the
\* Footsteps_0.wav of a former run; os.rename raised FileExistsError, the
\* worker's run ended there and 100.wem.wav kept its name.
C4_Witness ==
    /\ RenamePass
    /\ os_name = "nt"
    /\ last.outcome = "FileExistsError"
    /\ pc = "raised"
    /\ FileFootsteps0 \in DOMAIN last.start.dirs[Amb01]
    /\ File100 \in DOMAIN last.end.dirs[Amb01]
    /\ last.end = last.start

\* C6: renaming is idempotent: a pass of rename_files over the tree a full
\* pass left (under the same mapping) renames no file, raises no error and
\* leaves the tree as it found it; this holds whether or not the display
\* names of a bank are pairwise distinct.
C6_RenamingIdempotent ==
    SecondPass("rename") =>
        /\ last.end = last.start
        /\ last.ops = <<>>
        /\ last.outcome \in {"returned", "cancelled"}

\* C6 witness: a second full pass under the scenario mapping (display names
\* Footsteps_0 and Footsteps_1) over AMB_01, whose two files the first pass
\* had renamed.
C6_Witness ==
    /\ SecondPass("rename")
    /\ last.outcome = "returned"
    /\ last.part = "Shared"
    /\ Matching(Amb01) # {}
    /\ PageIdMap(Amb01) = ScenarioIdMap
    /\ Amb01 \in DOMAIN last.start.dirs
    /\ DOMAIN last.start.dirs[Amb01]
         = {ScenarioIdMap[Id100] \o DotWav, ScenarioIdMap[Id101] \o DotWav}
    /\ last.start.dirs[Amb01][ScenarioIdMap[Id100] \o DotWav]
         = <<"Shared", Amb01, File100>>
    /\ last.start.dirs[Amb01][ScenarioIdMap[Id101] \o DotWav]
         = <<"Shared", Amb01, File101>>

\* two files of folder d, both globbed by the pass, whose stems are keys of
\* the page's ID-map with one and the same display name
Colliding(d, n1, n2) ==
    /\ n1 # n2
    /\ n1 \in GlobSuffix(last.start.dirs[d], WemWav)
    /\ n2 \in GlobSuffix(last.start.dirs[d], WemWav)
    /\ Stem(n1) \in DOMAIN PageIdMap(d)
    /\ Stem(n2) \in DOMAIN PageIdMap(d)
    /\ PageIdMap(d)[Stem(n1)] = PageIdMap(d)[Stem(n2)]

\* the pass ran both renames without error; the file with the shared display
\* name holds the content of one of the two, and the other content is lost
BothRenamed(d, n1, n2) ==
    LET shared == PageIdMap(d)[Stem(n1)] \o DotWav
    IN  /\ last.outcome = "returned"
        /\ \E i, j \in 1..Len(last.ops) :
               /\ i # j
               /\ last.ops[i] = [op |-> "rename", folder |-> d, file |-> n1,
                                 to |-> shared]
               /\ last.ops[j] = [op |-> "rename", folder |-> d, file |-> n2,
                                 to |-> shared]
        /\ n1 \notin DOMAIN last.end.dirs[d]
        /\ n2 \notin DOMAIN last.end.dirs[d]
        /\ shared \in DOMAIN last.end.dirs[d]
        /\ last.end.dirs[d][shared]
             \in {last.start.dirs[d][n1], last.start.dirs[d][n2]}
        /\ Cardinality(Holders(last.end, last.start.dirs[d][n1])
                       \cup Holders(last.end, last.start.dirs[d][n2])) = 1

\* C14 as stated: if two different IDs, both present as files in one bank
\* subdirectory, map to the same display name, a pass of rename_files that
\* comes to the subdirectory performs both renames without error; the second
\* overwrites the first, so exactly one file with that display name remains
\* and the other file's content is lost.
C14_AsStated ==
    (RenamePass /\ last.outcome \notin {"cancelled", "aborted"}) =>
        \A d \in DOMAIN last.start.dirs :
            (Matching(d) # {} /\ \E k \in 1..Len(last.order) : last.order[k] = d) =>
                \A n1, n2 \in DOMAIN last.start.dirs[d] :
                    Colliding(d, n1, n2) => BothRenamed(d, n1, n2)

\* what holds of C14 where os.rename replaces an existing file (POSIX)
C14_OnPosix ==
    (RenamePass /\ os_name = "posix" /\ last.outcome = "returned") =>
        \A d \in DOMAIN last.start.dirs :
            Matching(d) # {} =>
                \A n1, n2 \in DOMAIN last.start.dirs[d] :
                    Colliding(d, n1, n2) => BothRenamed(d, n1, n2)

\* C14 witness: on Windows, with 100 and 101 both named Door_0 and both files
\* in AMB_01, the first os.rename succeeded and the second raised
\* FileExistsError: one file keeps its ID name and the worker's run is over.
C14_Witness ==
    /\ RenamePass
    /\ os_name = "nt"
    /\ last.outcome = "FileExistsError"
    /\ pc = "raised"
    /\ Amb01 \in DOMAIN last.start.dirs
    /\ Matching(Amb01) # {}
    /\ Colliding(Amb01, File100, File101)
    /\ Len(last.ops) = 1
    /\ Cardinality(DOMAIN last.end.dirs[Amb01] \cap {File100, File101}) = 1

\* the same collision on POSIX: both renames ran and one file is left
C14_WitnessPosix ==
    /\ RenamePass
    /\ os_name = "posix"
    /\ last.outcome = "returned"
    /\ Amb01 \in DOMAIN last.start.dirs
    /\ Matching(Amb01) # {}
    /\ Colliding(Amb01, File100, File101)
    /\ BothRenamed(Amb01, File100, File101)

\* the "No mappings found" notices of the pass for folder d
NoMappingNotices(d) ==
    {i \in 1..Len(last.msgs) : last.msgs[i] = <<"No mappings found for", d>>}

\* the pass came to folder d
Reached(d) == \E k \in 1..Len(last.order) : last.order[k] = d

\* C9 as stated: for every bank subdirectory whose name is contained
\* (case-insensitively) in no page key, one pass of rename_files leaves every
\* file in that subdirectory unchanged and emits exactly one "No mappings
\* found" notice for that subdirectory.
C9_AsStated ==
    RenamePass =>
        \A d \in DOMAIN last.start.dirs :
            Matching(d) = {} =>
                /\ last.end.dirs[d] = last.start.dirs[d]
                /\ Cardinality(NoMappingNotices(d)) = 1

\* C9 (amended): for every bank subdirectory whose name is contained
\* (case-insensitively) in no page key, one pass of rename_files leaves every
\* file in that subdirectory unchanged; it emits exactly one "No mappings
\* found" notice for the subdirectory when it comes to it, which a pass that
\* returns from its loop always does, and none when it does not: when the
\* mapping file is missing or does not load, or when the pass is cancelled or
\* ended by a failing os.rename before the subdirectory's turn.
C9_OneNoticeWhenReached ==
    RenamePass =>
        \A d \in DOMAIN last.start.dirs :
            Matching(d) = {} =>
                /\ last.end.dirs[d] = last.start.dirs[d]
                /\ Cardinality(NoMappingNotices(d)) = IF Reached(d) THEN 1 ELSE 0
                /\ last.outcome = "returned" => Reached(d)
                /\ wiki_json.state # "ok" => ~Reached(d)

\* C9 witness: under a mapping whose only key matches AMB_01, a full pass
\* renamed a file of AMB_01, left Vo_02 as it was and logged one notice for it.
C9_Witness ==
    /\ RenamePass
    /\ last.outcome = "returned"
    /\ Len(wiki_json.pages) = 1
    /\ Matching(Amb01) # {}
    /\ Matching(Vo02) = {}
    /\ Vo02 \in DOMAIN last.start.dirs
    /\ last.start.dirs[Vo02] # EmptyDict
    /\ last.end.dirs[Vo02] = last.start.dirs[Vo02]
    /\ last.ops # <<>>
    /\ Cardinality(NoMappingNotices(Vo02)) = 1

\* C10: for each bank folder rename_files selects the first page key, in the
\* order of the mapping, whose upper-cased text contains the upper-cased
\* folder name; the ID-map is built from that page and from no later one, and
\* when no key contains the folder name no page is selected.
C10_FirstMatchingKey ==
    folder_name # <<>> =>
        IF Matching(folder_name) = {}
        THEN mapping_key = None /\ pc # "sounds"
        ELSE /\ mapping_key = wiki_json.pages[FirstMatching(folder_name)].key
             /\ pc = "sounds" => id_dict = PageIdMap(folder_name)

\* C10 witness: both keys of the mapping contain AMB_01; "x AMB_01b" comes
\* first and is the one selected.
C10_Witness ==
    /\ pc = "sounds"
    /\ folder_name = Amb01
    /\ wiki_json.pages = <<PageAmbAlt, PageAmb>>
    /\ Matching(Amb01) = {1, 2}
    /\ mapping_key = PageAmbAlt.key
    /\ id_dict = IdMapOf[PageAmbAlt]
    /\ id_dict # IdMapOf[PageAmb]

AnnouncedStage(m) ==
    IF m[1] = "  Processing banks" THEN "decode"
    ELSE IF m[1] = "  Processing audio" THEN "convert"
    ELSE IF m[1] = "  Grouping audio" THEN "group"
    ELSE IF m[1] = "  Renaming audio" THEN "rename"
    ELSE "none"

IsAnnouncement(m) == AnnouncedStage(m) # "none"

\* the stage calls Worker.run has made so far in this run, in their order
Started ==
    LET notes == SelectSeq(log, IsAnnouncement)
    IN  [i \in 1..Len(notes) |->
            [stage |-> AnnouncedStage(notes[i]), part |-> notes[i][2]]]

\* the place of a stage call in the pipeline: decode, transcode, group,
\* rename, and within each Shared before SharedDev
Rank(c) ==
    2 * (CASE c.stage = "decode" -> 1 [] c.stage = "convert" -> 2
           [] c.stage = "group" -> 3 [] c.stage = "rename" -> 4)
    + (IF c.part = "SharedDev" THEN 1 ELSE 0)

\* the checkbox of a stage
Checked(stage) ==
    CASE stage = "decode" -> settings.should_decode_banks
      [] stage = "convert" -> settings.should_convert
      [] stage = "group" -> settings.should_group
      [] stage = "rename" -> settings.should_rename

\* the stage whose loop the worker is in, "none" between the calls
StageAt(at) ==
    CASE at \in {"banks", "decoding"} -> "decode"
      [] at \in {"wems", "converting"} -> "convert"
      [] at \in {"walk", "lines"} -> "group"
      [] at \in {"folders", "sounds"} -> "rename"
      [] OTHER -> "none"

\* C15: within one Worker.run the enabled stages execute strictly in the
\* order decode banks, transcode audio, group, rename, and within a stage
\* Shared before SharedDev; the worker is inside at most one stage call, the
\* one started last, and a call starts only when the call before it has
\* ended; no call is made for a stage whose flag is off; a run that reaches
\* "Done" has made the calls of every enabled stage for both partitions.
C15_StagesInOrder ==
    LET started == Started
        n == Len(started)
    IN  /\ \A i, j \in 1..n : i < j => Rank(started[i]) < Rank(started[j])
        /\ \A i \in 1..n : Checked(started[i].stage)
        /\ StageAt(pc) = call.stage
        /\ proc.tool # "none" => pc \in {"decoding", "converting"}
        /\ call # NoCall =>
              /\ n > 0
              /\ call.stage = started[n].stage
              /\ call.part = started[n].part
              /\ n > 1 => /\ last.stage = started[n - 1].stage
                          /\ last.part = started[n - 1].part
        /\ (call = NoCall /\ n > 0) =>
              /\ last.stage = started[n].stage
              /\ last.part = started[n].part
        /\ (n > 0 /\ pc \in {"dispatch", "finished", "idle"}) =>
              last.outcome \in {"returned", "cancelled", "aborted"}
        /\ (log # <<>> /\ log[Len(log)] = <<"Done">>) =>
              \A st \in Stages : \A p \in Partitions :
                  Checked(st) <=> \E i \in 1..n : started[i] = [stage |-> st, part |-> p]

\* C15 witness: a run with the four boxes checked has made its eight calls in
\* order and reached "Done", with both sounds decoded from the bank,
\* converted, grouped under AMB_01 and renamed.
C15_Witness ==
    /\ pc = "finished"
    /\ \A st \in Stages : Checked(st)
    /\ Len(Started) = 8
    /\ last.stage = "rename"
    /\ last.part = "SharedDev"
    /\ Amb01 \in DOMAIN banks_converted["Shared"]
    /\ banks_converted["Shared"][Amb01].xml
    /\ Amb01 \in DOMAIN audio_converted["Shared"].dirs
    /\ DOMAIN audio_converted["Shared"].dirs[Amb01] = {Door \o <<"_", "0">> \o DotWav}

\* the stage calls this state holds a record of: the one in progress and
\* the one that ended last
Records == {call, last} \ {NoCall}

\* the call stop() found in progress, and the calls made after stop()
Marked(c) ==
    /\ stop_mark.call # NoCall
    /\ c.stage = stop_mark.call.stage
    /\ c.part = stop_mark.call.part

MadeAfterStop(c) ==
    Rank(c) > (IF stop_mark.call # NoCall THEN Rank(stop_mark.call)
               ELSE IF stop_mark.last # NoCall THEN Rank(stop_mark.last)
               ELSE 0)

\* the operations of a call made since stop(), and the banks or folders it
\* has come to since
Further(c) ==
    IF Marked(c) THEN SubSeq(c.ops, Len(stop_mark.call.ops) + 1, Len(c.ops))
    ELSE IF MadeAfterStop(c) THEN c.ops
    ELSE <<>>

FurtherVisits(c) ==
    IF Marked(c) THEN SubSeq(c.order, Len(stop_mark.call.order) + 1, Len(c.order))
    ELSE IF MadeAfterStop(c) THEN c.order
    ELSE <<>>

\* how many operations of one kind the recorded calls made since stop()
FurtherCount(kind) ==
    LET n(c) == Cardinality({i \in 1..Len(Further(c)) : Further(c)[i].op = kind})
    IN  (IF call # NoCall THEN n(call) ELSE 0)
        + (IF last # NoCall /\ last # call THEN n(last) ELSE 0)

\* the process stop() found in flight was left to end: it is still awaited,
\* or its end is the next operation of its call
LeftToEnd ==
    \A c \in Records :
        (Marked(c) /\ stop_mark.proc.tool # "none") =>
            \/ c = call /\ proc = stop_mark.proc
            \/ /\ Len(Further(c)) >= 1
               /\ Further(c)[1].item = stop_mark.proc.item

C16_WitnessInFlight ==
    /\ stop_mark.at = "converting"
    /\ last # NoCall
    /\ Marked(last)
    /\ last.outcome = "cancelled"
    /\ Len(Further(last)) = 1
    /\ Further(last)[1].done

\* where the worker thread has a next step of Worker.run to take
RunPlaces ==
    {"created", "dispatch", "banks", "decoding", "wems", "converting", "walk",
     "lines", "folders", "sounds"}

\* the last message of the run is "Done"
DoneEmitted == log # <<>> /\ log[Len(log)] = <<"Done">>

\* C17 as stated: every Worker.run that is started goes on until it emits
\* "Done" and finished, whatever error occurs in a stage: the worker is
\* always either at a step of run or past the "Done" that ended it with no
\* call left unmade, and never stopped by an error.
C17_AsStated ==
    /\ pc # "raised"
    /\ pc \in RunPlaces \cup {"finished", "idle"}
    /\ pc = "finished" => DoneEmitted /\ calls = <<>>

\* C17 witness: folder_vgmstream is no directory; os.chdir raised in the
\* conversion of Shared, the run ended there without "Done" or finished, the
\* remaining calls were never made and the Start button stays disabled.
C17_Witness ==
    /\ pc = "raised"
    /\ ~vgmstream_dir
    /\ last.stage = "convert"
    /\ last.part = "Shared"
    /\ last.outcome = "FileNotFoundError"
    /\ calls # <<>>
    /\ ~DoneEmitted
    /\ ~start_enabled

\* the same by a descriptor that is no text, in grouping
C17_WitnessDescriptor ==
    /\ pc = "raised"
    /\ last.stage = "group"
    /\ last.outcome = "UnicodeDecodeError"
    /\ ~DoneEmitted
    /\ ~start_enabled

\* the banks of the partition of the pass whose descriptor cannot be read
Unreadable(b) ==
    /\ banks_converted[last.part][b].xml
    /\ ~banks_converted[last.part][b].readable

\* C19 as stated, for grouping in app.py: a descriptor that cannot be read
\* is skipped with a logged warning and is not fatal: a pass that is not
\* cancelled raises nothing, logs a message naming the bank, moves no file
\* into its subdirectory, and still comes to every other bank that has a
\* descriptor.
C19_AsStated ==
    (last.stage = "group" /\ last.outcome # "cancelled") =>
        \A b \in DOMAIN banks_converted[last.part] :
            Unreadable(b) =>
                /\ last.outcome = "returned"
                /\ \E i \in 1..Len(last.msgs) :
                       /\ Len(last.msgs[i]) = 2
                       /\ last.msgs[i][2] = b
                /\ \A i \in 1..Len(last.ops) : last.ops[i].to # b
                /\ \A o \in DOMAIN banks_converted[last.part] :
                       banks_converted[last.part][o].xml =>
                           \E k \in 1..Len(last.order) : last.order[k] = o

\* C19 witness: the descriptor of Vo_02 is no text; grouping came to Vo_02
\* first, reading it raised, and the run ended there: AMB_01, decoded in this
\* run, was never come to, the converted files stay loose, and nothing was
\* logged about Vo_02.
C19_Witness ==
    /\ pc = "raised"
    /\ last.stage = "group"
    /\ last.part = "Shared"
    /\ last.outcome = "UnicodeDecodeError"
    /\ Unreadable(Vo02)
    /\ last.order = <<Vo02>>
    /\ Amb01 \in DOMAIN banks_converted["Shared"]
    /\ banks_converted["Shared"][Amb01].xml
    /\ File100 \in DOMAIN last.end.files
    /\ \A i \in 1..Len(log) : log[i] # GroupedNotice(Vo02)
    /\ ~DoneEmitted

\* the messages decode_banks and convert_wem_folder and their announcements
\* in Worker.run can emit (app.py 95-127, 139-174, 260-270): none of them
\* reports a failure of the decoder or of vgmstream-cli
ProgressKinds ==
    {"Decoding sound banks", "  Processing banks",
     "No BNK files found. Searching recursively...",
     "BNK files found in recursive search",
     "No BNK files found or recursive search", "Decoding banks",
     "Decoding cancelled.", "Added XML for bank", "banks decoded",
     "Converting sound files", "  Processing audio",
     "No WEM files found. Searching recursively...",
     "WEM files found in recursive search",
     "No WEM files found or recursive search", "Converting files",
     "Conversion cancelled.", "files converted"}

ToolStages == {"decode", "convert"}

\* the operations of a recorded call whose tool left no output
Failed(c) == {i \in 1..Len(c.ops) : ~c.ops[i].done}

\* C20 as stated, for app.py: when the decoder or the transcoder exits
\* non-zero or leaves no output file for an item, the failure is logged (a
\* message other than the progress messages is emitted for the item), only
\* that item is skipped, and every remaining item is still processed.
C20_AsStated ==
    \A c \in Records :
        c.stage \in ToolStages =>
            /\ \A i \in Failed(c) :
                   \E j \in 1..Len(c.msgs) : c.msgs[j][1] \notin ProgressKinds
            /\ (c = last /\ c.outcome = "returned") =>
                   {c.ops[i].item : i \in 1..Len(c.ops)}
                       = (IF c.stage = "decode" THEN BanksFound(unpacked, c.part)
                          ELSE WemsFound(unpacked, c.part))

\* what holds of C20 in app.py: a call that returns has run the tool on
\* every item it listed, failed or not; the output of an item is there when
\* the tool wrote it, a failed decoding leaves the bank folder made with the
\* descriptor it had, and each item, failed or not, is counted in a progress
\* message and nothing else is emitted.
C20_SkippedSilently ==
    \A c \in Records :
        c.stage \in ToolStages =>
            /\ \A j \in 1..Len(c.msgs) : c.msgs[j][1] \in ProgressKinds
            /\ Cardinality({j \in 1..Len(c.msgs) :
                               c.msgs[j][1] \in {"banks decoded", "files converted"}})
                   = Len(c.ops)
            /\ Cardinality({j \in 1..Len(c.msgs) :
                               c.msgs[j][1] = "Added XML for bank"})
                   = (IF c.stage = "decode" THEN Len(c.ops) - Cardinality(Failed(c))
                      ELSE 0)
            /\ (c = last /\ c.outcome = "returned") =>
                   /\ {c.ops[i].item : i \in 1..Len(c.ops)}
                          = (IF c.stage = "decode"
                             THEN BanksFound(unpacked, c.part)
                             ELSE WemsFound(unpacked, c.part))
                   /\ \A i \in 1..Len(c.ops) :
                          IF c.stage = "decode"
                          THEN LET b == BankName(c.ops[i].item)
                               IN  /\ b \in DOMAIN c.end
                                   /\ c.ops[i].done => c.end[b] = DescriptorOf(b)
                                   /\ ~c.ops[i].done =>
                                          c.end[b] = (IF b \in DOMAIN c.start
                                                      THEN c.start[b] ELSE NoXml)
                          ELSE LET n == ConvertedName(c.ops[i].item)
                               IN  /\ c.ops[i].done => n \in DOMAIN c.end.files
                                   /\ ~c.ops[i].done =>
                                          (n \in DOMAIN c.end.files
                                              <=> n \in DOMAIN c.start.files)

\* C20 witness: vgmstream-cli left no file for the first of the two .wem
\* files and wrote the second; the call returned having emitted "1/2" and
\* "2/2 files converted" and nothing about the failure.
C20_Witness ==
    /\ last.stage = "convert"
    /\ last.part = "Shared"
    /\ last.outcome = "returned"
    /\ Len(last.ops) = 2
    /\ ~last.ops[1].done
    /\ last.ops[2].done
    /\ DOMAIN last.end.files = {ConvertedName(last.ops[2].item)}
    /\ \A j \in 1..Len(last.msgs) : last.msgs[j][1] \in ProgressKinds
    /\ \E j \in 1..Len(last.msgs) :
           last.msgs[j] = <<"files converted", 1, 2, "Shared">>

(***************************************************************************)
(* Claims about app2's process_bnk_file (checked under SpecBank).           *)
(***************************************************************************)
\* the decoder ended with an error, a non-zero status or no XML file
ToolFailed(task) ==
    task.tool.raises \/ task.tool.returncode # 0 \/ ~task.tool.xml_created

\* C20, app2: a bank whose decoder failed is logged once and is still
\* recorded, with an empty sound_files.
C20_App2Recorded ==
    (bank_result # None /\ ToolFailed(bnk_task)) =>
        /\ Len(errors) = 1
        /\ bank_result = <<bnk_task.bank_name,
                           [name |-> bnk_task.bank_name, sound_files |-> EmptyDict]>>

C20_App2Witness ==
    /\ bank_result # None
    /\ bnk_task.tool.returncode = 1
    /\ ~bnk_task.tool.raises
    /\ Len(errors) = 1

\* C19, app2: parse_bnk_xml on a file that is not well-formed raises
\* nothing, logs the error and contributes no sound ID; a well-formed file
\* gives an entry for each ID.
C19_App2Parsed ==
    (bank_result # None /\ ~ToolFailed(bnk_task)) =>
        /\ bank_result # <<"raised">>
        /\ bank_result[1] = bnk_task.bank_name
        /\ IF bnk_task.doc.wellformed
           THEN /\ errors = <<>>
                /\ DOMAIN bank_result[2].sound_files
                       = {bnk_task.doc.ids[i] : i \in 1..Len(bnk_task.doc.ids)}
                             \ {<<>>}
           ELSE /\ Len(errors) = 1
                /\ bank_result[2].sound_files = EmptyDict

C19_App2Witness ==
    /\ bank_result # None
    /\ ~ToolFailed(bnk_task)
    /\ ~bnk_task.doc.wellformed
    /\ Len(errors) = 1


(***************************************************************************)
(* Claims about the mapping file and the run (checked under Spec).          *)
(***************************************************************************)
\* the abort messages among the messages of a call
AbortNotices(msgs) ==
    {i \in 1..Len(msgs) :
        msgs[i][1] \in {"wiki_data.json is missing. Skipping renaming.",
                        "Error loading JSON mapping"}}

\* C21: if the mapping file is missing, unreadable or not valid JSON, a call
\* of rename_files emits one abort message for the partition, renames no
\* file, raises nothing, and the run continues: after Shared the call for
\* SharedDev is still to be made, and after SharedDev the run goes to "Done".
C21_AbortsStageOnly ==
    (last.stage = "rename" /\ wiki_json.state \in {"missing", "invalid"}) =>
        /\ last.outcome = "aborted"
        /\ Cardinality(AbortNotices(last.msgs)) = 1
        /\ Len(last.msgs) \in AbortNotices(last.msgs)
        /\ last.ops = <<>>
        /\ last.end = last.start
        /\ audio_converted[last.part] = last.start
        /\ pc \in {"dispatch", "finished", "idle"}
        /\ IF last.part = "Shared"
           THEN /\ pc = "dispatch"
                /\ calls = <<[stage |-> "rename", part |-> "SharedDev"]>>
           ELSE /\ calls = <<>>
                /\ pc # "dispatch" => DoneEmitted

\* C21 witness: the mapping file is no valid JSON; both calls of rename_files
\* were aborted with files named after IDs left as they were, and the run
\* has emitted "Done".
C21_Witness ==
    /\ wiki_json.state = "invalid"
    /\ last.stage = "rename"
    /\ last.part = "SharedDev"
    /\ last.outcome = "aborted"
    /\ pc = "finished"
    /\ DoneEmitted
    /\ Cardinality(AbortNotices(log)) = 2
    /\ Amb01 \in DOMAIN audio_converted["Shared"].dirs
    /\ File100 \in DOMAIN audio_converted["Shared"].dirs[Amb01]

\* the same with the file missing
C21_WitnessMissing ==
    /\ wiki_json.state = "missing"
    /\ last.stage = "rename"
    /\ last.part = "SharedDev"
    /\ last.outcome = "aborted"
    /\ pc = "finished"
    /\ DoneEmitted
    /\ Cardinality(AbortNotices(log)) = 2


(***************************************************************************)
(* Claims about the line of a descriptor (checked under SpecLine).          *)
(***************************************************************************)
\* the indices of the double quotes of a line
Quotes(text) == {i \in 1..Len(text) : text[i] = "\""}

\* the double-quoted tokens of a line, its quotes paired from the left
QuotedTokens(text) ==
    LET parts == split(text, "\"")
    IN  [k \in 1..((Len(parts) - 1) \div 2) |-> parts[2 * k]]

\* what stands between the last two double quotes of a line
BetweenLastQuotes(text) ==
    LET closing == CHOOSE i \in Quotes(text) : \A j \in Quotes(text) : j <= i
        opening == CHOOSE i \in Quotes(text) \ {closing} :
                       \A j \in Quotes(text) \ {closing} : j <= i
    IN  Slice(text, opening + 1, closing - 1)

\* the line has been read and held the marker
LineRead == line_ids # None /\ line_ids # <<"skipped">>

\* C22 as stated: the ID taken from a line with the marker is the
\* second-to-last double-quoted token of the line
C22_AsStated ==
    (LineRead /\ Len(QuotedTokens(descriptor_line)) >= 2) =>
        line_ids = QuotedTokens(descriptor_line)[Len(QuotedTokens(descriptor_line)) - 1]

\* C22: the ID taken from a line with the marker is what stands between the
\* last two double quotes of the line: the last double-quoted token when the
\* quotes of the line pair up
C22_LastQuotedToken ==
    LineRead =>
        /\ line_ids = BetweenLastQuotes(descriptor_line)
        /\ Cardinality(Quotes(descriptor_line)) % 2 = 0 =>
               line_ids = QuotedTokens(descriptor_line)[Len(QuotedTokens(descriptor_line))]

\* the decoder's line for sound 100 has been read: the ID is 100, the last
\* of its two quoted tokens
C22_Witness ==
    /\ descriptor_line = SourceLine(Id100)
    /\ line_ids = Id100
    /\ QuotedTokens(descriptor_line) = <<Slice(SourceIdMarker, 7, 14), Id100>>


(***************************************************************************)
(* Claims about app2's search for banks, its window and its worker          *)
(* (checked under SpecDict).                                                *)
(***************************************************************************)
\* find_bnk_files has returned in the worker's run
Searched == bank_pc \in {"processing", "returned"} /\ DOMAIN bnk_files # {}

\* the Shared folder / SharedDev folder the search settled on, <<>> for none
SharedFolder ==
    LET s == FirstExisting(data_tree, possible_shared_paths)
    IN  IF s = 0 THEN <<>> ELSE possible_shared_paths[s]

SharedDevFolder ==
    LET d == FirstExisting(data_tree, possible_shared_dev_paths)
    IN  IF d = 0 THEN <<>> ELSE possible_shared_dev_paths[d]

\* every file returned, whatever its category
Returned == UNION {bnk_files[c] : c \in DOMAIN bnk_files}

\* C23 as stated: with shared_only the search returns, and the worker takes
\* up, only banks below the Shared folder; with shareddev_only only banks
\* below the SharedDev folder
C23_AsStated ==
    Searched =>
        /\ worker_opts.shared_only =>
               \A p \in Returned :
                   SharedFolder # <<>> /\ IsUnder(p.root, SharedFolder)
        /\ worker_opts.shareddev_only =>
               \A p \in Returned :
                   SharedDevFolder # <<>> /\ IsUnder(p.root, SharedDevFolder)
        /\ \A t \in bank_todo : [root |-> t.root, file |-> t.file] \in Returned

\* a run with "Process only Shared" checked has finished and handed over the
\* bank of Mods in the category Other
C23_Witness ==
    /\ worker_opts.shared_only
    /\ bank_pc = "returned"
    /\ emitted # <<>>
    /\ emitted[Len(emitted)].signal = "finished"
    /\ "Other" \in DOMAIN bnk_files
    /\ [root |-> <<ModsName>>, file |-> <<"a">> \o DotBnk] \in bnk_files["Other"]
    /\ "Other" \in DOMAIN run_banks
    /\ <<"a">> \in run_banks["Other"]

\* C24: the boxes "Process only Shared" and "Process only SharedDev" are
\* never both checked
C24_NeverBothChecked == ~(shared_only_box /\ shareddev_only_box)

\* a run was started with "Process only SharedDev" checked, and the click
\* that checked "Process only Shared" since then has unchecked it
C24_Witness ==
    /\ worker_opts.shareddev_only
    /\ bank_pc # "none"
    /\ shared_only_box
    /\ ~shareddev_only_box

\* the finished and error signals of the run so far
Terminal(signals) ==
    {i \in 1..Len(signals) : signals[i].signal \in {"finished", "error"}}

\* C26 as stated: a run that has ended has emitted exactly one of finished
\* and error, and once the window has taken the signal Start is enabled
\* again and the label no longer says "Cancelling..."
C26_AsStated ==
    bank_pc = "returned" =>
        /\ Cardinality(Terminal(emitted)) = 1
        /\ queued = <<>> => (start_btn /\ progress_label # "Cancelling...")

\* a cancelled run has ended with its "Processing cancelled" message and
\* neither signal: nothing is left to deliver, Start and Cancel are both
\* disabled and the label says "Cancelling..."
C26_Witness ==
    /\ bank_pc = "returned"
    /\ is_cancelled
    /\ emitted[Len(emitted)] = LogSignal("Processing cancelled")
    /\ Terminal(emitted) = {}
    /\ queued = <<>>
    /\ ~start_btn
    /\ ~cancel_btn
    /\ progress_label = "Cancelling..."

\* C27 as stated: every bank found is in exactly one category; when the
\* Shared and the SharedDev folder both exist and neither flag is set, a
\* bank below SharedDev is in SharedDev and not in Shared; no category of
\* the result is empty
C27_AsStated ==
    Searched =>
        /\ \A p \in WalkBnk(data_tree) :
               Cardinality({c \in DOMAIN bnk_files : p \in bnk_files[c]}) = 1
        /\ \A c \in DOMAIN bnk_files : bnk_files[c] # {}
        /\ (/\ SharedFolder # <<>>
            /\ SharedDevFolder # <<>>
            /\ ~worker_opts.shared_only
            /\ ~worker_opts.shareddev_only) =>
               \A p \in WalkBnk(data_tree) :
                   IsUnder(p.root, SharedDevFolder) =>
                       /\ "SharedDev" \in DOMAIN bnk_files
                       /\ p \in bnk_files["SharedDev"]
                       /\ "Shared" \in DOMAIN bnk_files => p \notin bnk_files["Shared"]

\* with neither box checked, Public/Shared there and empty, the bank of
\* Public/SharedDev has been put in the category Shared
C27_Witness ==
    /\ Searched
    /\ ~worker_opts.shared_only
    /\ ~worker_opts.shareddev_only
    /\ data_tree[<<PublicName, SharedName>>] = [exists |-> TRUE, files |-> {}]
    /\ SharedDevFolder = <<PublicName, SharedDevName>>
    /\ "Shared" \in DOMAIN bnk_files
    /\ [root |-> <<PublicName, SharedDevName>>, file |-> <<"a">> \o DotBnk]
           \in bnk_files["Shared"]
    /\ "SharedDev" \notin DOMAIN bnk_files


(***************************************************************************)
(* Claims about stop requests and the end of the run (checked under         *)
(* SpecRun).                                                                *)
(***************************************************************************)
\* C25 as stated: a stop request is never lost: after stop(), whenever it
\* came since the worker was created, no stage call comes to more than one
\* further bank, file or folder: the rest is not processed
C25_AsStated ==
    stop_mark.at # "none" =>
        \A c \in Records : Len(FurtherVisits(c)) <= 1

\* stop() came before run() had begun; run() set the flag again, and the run
\* went through to "Done" with Stop disabled: its last call, the renaming of
\* SharedDev, returned without being cancelled, and the grouping of Shared
\* before it came to both its banks
C25_Witness ==
    /\ stop_mark.at = "created"
    /\ pc = "finished"
    /\ DoneEmitted
    /\ is_running
    /\ ~stop_enabled
    /\ last.stage = "rename"
    /\ last.outcome = "returned"
    /\ completed["group"]["Shared"].done
    /\ completed["rename"]["Shared"].done


\* the messages of the stages that found the flag cleared (app.py 113, 167,
\* 181, 220)
CancelNotices ==
    {<<"Decoding cancelled.">>, <<"Conversion cancelled.">>,
     <<"Grouping cancelled.">>, <<"Renaming cancelled.">>}

\* a stage of this run has found the flag cleared
CancelSeen == \E i \in 1..Len(log) : log[i] \in CancelNotices

\* the "Done" messages of the run
DoneCount == Cardinality({i \in 1..Len(log) : log[i] = <<"Done">>})

\* C28 as stated: once a stage has found the flag cleared, no step of the
\* run changes the converted banks or the converted audio, the calls that
\* remain are still made, and the run ends with "Done", emitted once, and
\* never with an error
C28_AsStated ==
    /\ [](CancelSeen =>
              /\ pc # "raised"
              /\ pc \in {"finished", "idle"} => (calls = <<>> /\ DoneCount = 1))
    /\ [][CancelSeen => fsVars' = fsVars]_vars

\* decoding was cancelled, conversion was entered all the same, and its
\* os.chdir to a vgmstream folder that is not there ended the run without
\* "Done"
C28_Witness ==
    /\ \E i \in 1..Len(log) : log[i] = <<"Decoding cancelled.">>
    /\ pc = "raised"
    /\ last.stage = "convert"
    /\ last.outcome = "FileNotFoundError"
    /\ DoneCount = 0


(***************************************************************************)
(* Claims about the buttons of MainWindow and about the files grouping      *)
(* moves (checked under Spec).                                              *)
(***************************************************************************)
\* a worker is running: created and not yet reported finished to the window
WorkerRunning == pc \in RunPlaces \cup {"finished"}

\* C29 as stated: Start is disabled while a worker is running, so that no
\* second worker can be started; Start and Stop are never both enabled; Stop
\* is enabled only while a worker is running
C29_AsStated ==
    /\ WorkerRunning => ~start_enabled
    /\ ~(start_enabled /\ stop_enabled)
    /\ stop_enabled => WorkerRunning

\* Worker.run was ended by an exception: no worker is running, no finished
\* signal will come, and Stop is enabled (Start is not)
C29_Witness ==
    /\ pc = "raised"
    /\ last.outcome \notin {"returned", "cancelled", "aborted"}
    /\ stop_enabled
    /\ ~start_enabled


\* the audio files of a tree, each as <<place, name, file>>: the loose
\* pool is the place <<>>
AudioFiles(tree) ==
    {<<<<>>, n, tree.files[n]>> : n \in DOMAIN tree.files}
    \cup UNION {{<<d, n, tree.dirs[d][n]>> : n \in DOMAIN tree.dirs[d]} :
                   d \in DOMAIN tree.dirs}

\* the files of a tree with their names, wherever they lie
NamedFiles(tree) == {<<x[2], x[3]>> : x \in AudioFiles(tree)}

\* the files of a tree
NamedFilesOnly(tree) == {x[3] : x \in AudioFiles(tree)}

\* C30 as stated: a grouping pass leaves as many audio files in the partition
\* as it found, each file under the name it had: none is deleted,
\* overwritten or duplicated
C30_AsStated ==
    GroupingPass =>
        /\ Cardinality(AudioFiles(last.end)) = Cardinality(AudioFiles(last.start))
        /\ NamedFiles(last.end) = NamedFiles(last.start)

\* the subdirectory of AMB_01 held a 100.wem.wav of an earlier grouping and
\* the pool a newer one: the pass has moved the newer file over the older,
\* and the partition holds one file less
C30_Witness ==
    /\ GroupingPass
    /\ last.part = "Shared"
    /\ Amb01 \in DOMAIN last.start.dirs
    /\ File100 \in DOMAIN last.start.dirs[Amb01]
    /\ File100 \in DOMAIN last.start.files
    /\ last.end.dirs[Amb01][File100] = last.start.files[File100]
    /\ last.start.dirs[Amb01][File100] \notin NamedFilesOnly(last.end)
    /\ Cardinality(AudioFiles(last.end)) = Cardinality(AudioFiles(last.start)) - 1

=============================================================================
